---- MODULE Spec2Model ----
(***************************************************************************)
(* Model of the signal pipeline of thprom/trader:                          *)
(*   technical_analysis.py  (indicator labels, overall bias)               *)
(*   final/psychology.py    (MarketingTrapDetector)                        *)
(*   strategy.py            (StrategyScorer)                               *)
(*   final/ai_engine.py     (AIDecisionEngine.predict_trade)               *)
(*   final/live_data.py     (LiveSignalGenerator)                          *)
(*                                                                         *)
(* Numbers are fixed point.  The unit of every quantity is stated where it *)
(* is introduced:                                                          *)
(*   raw factor scores, strengths, confidences : 1/1000       ("milli")    *)
(*   strategy score before rounding            : 1/1000 of a point         *)
(*   strategy score as returned (round(x, 1))  : 1/10 of a point           *)
(*   probability as returned (round(x, 1))     : 1/10 of a percent         *)
(*   Bollinger percent / width as returned     : 1/10000                   *)
(*   RSI as returned (round(x, 2))             : 1/100                     *)
(* Values of the last bar before rounding carry one more decimal digit.    *)
(***************************************************************************)
EXTENDS Integers, Sequences, FiniteSets, TLC

VARIABLES
    pc,             \* position inside the call that is being executed
    is_trained,     \* AIDecisionEngine.is_trained
    session_perf,   \* Database.get_session_performance(): session -> [trades, wins]
    df,             \* the candle frame of the call: [n, latest, bb_width_mean]
    signals,        \* result of get_current_signals
    volatility,     \* result of calculate_volatility
    trend,          \* result of get_trend_strength
    session,        \* market_status['current_session'] (or the caller's session)
    score_result,   \* result of calculate_score
    trap_analysis,  \* result of analyze_setup
    ai_prediction,  \* result of predict_trade
    signal,         \* result of _determine_signal / generate_signal
    now,            \* datetime.now(), in minutes
    first_run,      \* the results of an earlier run on the same inputs
    call,           \* the arguments of a call made from outside generate_signal
    model,          \* AIDecisionEngine.model: [run, fitted]
    scaler,         \* AIDecisionEngine.scaler: the run that fitted it last
    model_metrics,  \* AIDecisionEngine.model_metrics: the run that set them
    model_file,     \* models/trade_model.pkl: [model, metrics]
    scaler_file,    \* models/scaler.pkl
    trainer,        \* the train_model calls in progress: thread -> [pc, trades, valid, result]
    trades,         \* the trades table, in order of entry_time
    balance,        \* what get_current_balance() returns, in 1/100 cent
    balance_time,   \* the greatest timestamp of balance_history
    is_paused,      \* SimulationEngine.is_paused
    pause_reason,   \* SimulationEngine.pause_reason
    last_result,    \* what the last call on the bot or its simulation returned
    mode            \* MarketSenseBot.mode

pipeline_vars == <<pc, session_perf, df, signals, volatility, trend, session,
                   score_result, trap_analysis, ai_prediction, signal>>
call_vars == <<now, first_run, call>>
engine_vars == <<is_trained, model, scaler, model_metrics, model_file, scaler_file, trainer>>
simulation_vars == <<trades, balance, balance_time, is_paused, pause_reason, last_result, mode>>

vars == <<pipeline_vars, call_vars, engine_vars, simulation_vars>>

None == "None"

(* the historical_df argument when the caller passes none *)
NoFrame == [ given |-> FALSE, bb_width_mean |-> 0 ]

(* datetime.now().hour and datetime.now().date() of a time in minutes *)
HourOf(t) == (t \div 60) % 24
DateOf(t) == t \div 1440

(* dict.get(key, default) *)
Get(rec, key, default) == IF key \in DOMAIN rec THEN rec[key] ELSE default

NoDict == [ k \in {} |-> 0 ]

Min(a, b) == IF a <= b THEN a ELSE b
Max(a, b) == IF a >= b THEN a ELSE b
Abs(a) == IF a < 0 THEN -a ELSE a

(* round(x, ndigits) of Python on the exact value: the nearest multiple of *)
(* step, a tie going to the even multiple.  The result counts steps.       *)
Round(x, step) ==
    LET q == x \div step
        r == x % step
    IN  IF 2 * r < step THEN q
        ELSE IF 2 * r > step THEN q + 1
        ELSE IF q % 2 = 0 THEN q ELSE q + 1

(***************************************************************************)
(* technical_analysis.py: labels of the latest bar                         *)
(*                                                                         *)
(* A bar carries the numeric columns the indicator library produced for    *)
(* the last candle.  Prices (open, high, low, close, EMAs, bands) are in   *)
(* ticks of 1/1000000, rsi in 1/1000, macd columns in 1/1000000,           *)
(* bb_percent and bb_width in 1/100000.                                    *)
(***************************************************************************)
RsiOverbought == 70
RsiOversold == 30

_get_rsi_signal(rsi_value) ==
    IF rsi_value >= RsiOverbought * 1000 THEN "OVERBOUGHT"
    ELSE IF rsi_value <= RsiOversold * 1000 THEN "OVERSOLD"
    ELSE IF rsi_value > 50000 THEN "BULLISH"
    ELSE IF rsi_value < 50000 THEN "BEARISH"
    ELSE "NEUTRAL"

ema_signal_of(bar) ==
    IF bar.ema_fast > bar.ema_slow THEN "BULLISH"
    ELSE IF bar.ema_fast < bar.ema_slow THEN "BEARISH"
    ELSE "NEUTRAL"

(* the crossover test with a strict comparison on the bar before *)
ema_crossover_strict(bar) ==
    IF bar.prev_ema_fast < bar.prev_ema_slow /\ bar.ema_fast > bar.ema_slow
        THEN "BULLISH_CROSS"
    ELSE IF bar.prev_ema_fast > bar.prev_ema_slow /\ bar.ema_fast < bar.ema_slow
        THEN "BEARISH_CROSS"
    ELSE "NONE"

(* one iteration of the crossover loop: the bar against the bar before it *)
ema_crossover_of(bar) ==
    IF bar.prev_ema_fast <= bar.prev_ema_slow /\ bar.ema_fast > bar.ema_slow
        THEN "BULLISH_CROSS"
    ELSE IF bar.prev_ema_fast >= bar.prev_ema_slow /\ bar.ema_fast < bar.ema_slow
        THEN "BEARISH_CROSS"
    ELSE "NONE"

macd_trend_of(bar) ==
    IF bar.macd > bar.macd_signal THEN "BULLISH"
    ELSE IF bar.macd < bar.macd_signal THEN "BEARISH"
    ELSE "NEUTRAL"

_get_bb_signal(bar) ==
    IF bar.close >= bar.bb_upper THEN "OVERBOUGHT"
    ELSE IF bar.close <= bar.bb_lower THEN "OVERSOLD"
    ELSE IF bar.close > bar.bb_middle THEN "BULLISH"
    ELSE IF bar.close < bar.bb_middle THEN "BEARISH"
    ELSE "NEUTRAL"

candle_type_of(bar) ==
    IF bar.close > bar.open THEN "BULLISH"
    ELSE IF bar.close < bar.open THEN "BEARISH"
    ELSE "DOJI"

(* body_ratio = body / range is compared by cross-multiplication *)
_identify_pattern(bar) ==
    LET body == Abs(bar.close - bar.open)
        range_val == bar.high - bar.low
        upper_wick == bar.high - Max(bar.open, bar.close)
        lower_wick == Min(bar.open, bar.close) - bar.low
    IN  IF range_val = 0 THEN "NONE"
        ELSE IF 10 * body < range_val THEN "DOJI"
        ELSE IF lower_wick > body * 2 /\ 2 * upper_wick < body THEN "HAMMER"
        ELSE IF upper_wick > body * 2 /\ 2 * lower_wick < body THEN "INVERTED_HAMMER"
        ELSE IF 10 * body > 8 * range_val
            THEN IF candle_type_of(bar) = "BULLISH" THEN "MARUBOZU_BULLISH"
                 ELSE IF candle_type_of(bar) = "BEARISH" THEN "MARUBOZU_BEARISH"
                 ELSE "MARUBOZU_DOJI"
        ELSE IF 10 * body < 3 * range_val /\ upper_wick > body /\ lower_wick > body
            THEN "SPINNING_TOP"
        ELSE "STANDARD"

(* the last row of the frame after calculate_all_indicators *)
calculate_all_indicators(bar) ==
    [ rsi |-> bar.rsi,
      rsi_signal |-> _get_rsi_signal(bar.rsi),
      ema_fast |-> bar.ema_fast,
      ema_slow |-> bar.ema_slow,
      ema_signal |-> ema_signal_of(bar),
      ema_crossover |-> ema_crossover_of(bar),
      macd_histogram |-> bar.macd_histogram,
      macd_trend |-> macd_trend_of(bar),
      bb_width |-> bar.bb_width,
      bb_percent |-> bar.bb_percent,
      bb_signal |-> _get_bb_signal(bar),
      candle_type |-> candle_type_of(bar),
      candle_pattern |-> _identify_pattern(bar) ]

BullishOnly == {"BULLISH", "BULLISH_CROSS"}

BullishLike == {"BULLISH", "OVERSOLD", "BULLISH_CROSS"}
BearishLike == {"BEARISH", "OVERBOUGHT", "BEARISH_CROSS"}

RECURSIVE CountIn(_, _)
CountIn(seq, set) ==
    IF seq = <<>> THEN 0
    ELSE (IF Head(seq) \in set THEN 1 ELSE 0) + CountIn(Tail(seq), set)

_calculate_overall_bias(row) ==
    LET signals_to_check == << row.rsi_signal, row.ema_signal, row.macd_trend,
                               row.bb_signal, row.candle_type >>
        bullish_count == CountIn(signals_to_check, BullishLike)
        bearish_count == CountIn(signals_to_check, BearishLike)
        total_signals == Len(signals_to_check)
        bias == IF bullish_count > bearish_count THEN "BULLISH"
                ELSE IF bearish_count > bullish_count THEN "BEARISH"
                ELSE "NEUTRAL"
        confidence == IF bullish_count > bearish_count
                          THEN (bullish_count * 1000) \div total_signals
                      ELSE IF bearish_count > bullish_count
                          THEN (bearish_count * 1000) \div total_signals
                      ELSE 500
    IN  [ direction |-> bias,
          confidence |-> 10 * Round(confidence, 10),
          bullish_signals |-> bullish_count,
          bearish_signals |-> bearish_count,
          total_signals |-> total_signals ]

(* abs(value - 50) / 50, in milli *)
_calculate_signal_strength(rsi_value) == Abs(rsi_value - 50000) \div 50

(* min(abs(fast - slow) / slow * 10, 1.0), in milli *)
_calculate_ema_strength(row) ==
    IF row.ema_slow = 0 THEN 500
    ELSE Min((Abs(row.ema_fast - row.ema_slow) * 10000) \div row.ema_slow, 1000)

(* min(abs(histogram) * 100, 1.0), in milli *)
_calculate_macd_strength(row) == Min(Abs(row.macd_histogram) \div 10, 1000)

get_current_signals(row) ==
    [ rsi |-> [ value |-> Round(row.rsi, 10),
                signal |-> row.rsi_signal,
                strength |-> _calculate_signal_strength(row.rsi) ],
      ema |-> [ signal |-> row.ema_signal,
                crossover |-> row.ema_crossover,
                strength |-> _calculate_ema_strength(row) ],
      macd |-> [ histogram |-> Round(row.macd_histogram, 10),
                 trend |-> row.macd_trend,
                 strength |-> _calculate_macd_strength(row) ],
      bollinger |-> [ width |-> Round(row.bb_width, 10),
                      percent |-> Round(row.bb_percent, 10),
                      signal |-> row.bb_signal ],
      candle |-> [ type |-> row.candle_type,
                   pattern |-> row.candle_pattern ],
      overall_bias |-> _calculate_overall_bias(row) ]

(***************************************************************************)
(* final/psychology.py: MarketingTrapDetector                              *)
(***************************************************************************)
perfect_setup_threshold == 900        \* 0.9, in milli
volatility_spike_threshold == 2       \* 2.0
late_entry_threshold == 7000          \* 0.7, in 1/10000

PerfectSetupRisk == 30
LateEntryRisk == 25
VolatilitySpikeRisk == 25
DivergenceRisk == 15

(* the perfect-setup check with a threshold no alignment reaches *)
perfect_setup_never(sig) == [ type |-> "PERFECT_SETUP_TRAP", is_trap |-> FALSE ]

_check_perfect_setup(sig) ==
    LET bias == sig.overall_bias
        max_aligned == Max(bias.bullish_signals, bias.bearish_signals)
        \* alignment_ratio = max_aligned / total if total > 0 else 0
        is_trap == IF bias.total_signals > 0
                       THEN max_aligned * 1000 >= perfect_setup_threshold * bias.total_signals
                       ELSE 0 >= perfect_setup_threshold
    IN  [ type |-> "PERFECT_SETUP_TRAP", is_trap |-> is_trap ]

(* bb_percent < (1 - threshold).  The right-hand side is evaluated in      *)
(* binary64: 1 - 0.7 is 0.30000000000000004, the double above 0.3, while   *)
(* bb_percent is a value rounded to four decimals; so the comparison holds *)
(* for every such value up to and including 0.3.                           *)
below_one_minus_threshold(bb_percent) ==
    bb_percent <= 10000 - late_entry_threshold

_check_late_entry(sig) ==
    LET bb_percent == sig.bollinger.percent
        is_late == bb_percent > late_entry_threshold
                   \/ below_one_minus_threshold(bb_percent)
    IN  [ type |-> "LATE_ENTRY_TRAP", is_trap |-> is_late ]

(* historical_df.given is FALSE for None (or a frame without a bb_width    *)
(* column); otherwise the bb_width column has the mean bb_width_mean       *)
(* (1/100000)                                                              *)
_check_volatility_spike(sig, historical_df) ==
    LET bb_width == sig.bollinger.width
        is_spike == IF historical_df.given
                        THEN 10 * bb_width
                               > historical_df.bb_width_mean * volatility_spike_threshold
                        ELSE bb_width > 500
    IN  [ type |-> "VOLATILITY_SPIKE", is_trap |-> is_spike ]

(* the divergence check satisfied by two signals on either side *)
_check_divergence_either_side(sig) ==
    LET checked == << sig.rsi.signal, sig.macd.trend, sig.ema.signal, sig.candle.type >>
        bullish_count == CountIn(checked, {"BULLISH", "OVERSOLD"})
        bearish_count == CountIn(checked, {"BEARISH", "OVERBOUGHT"})
    IN  [ type |-> "INDICATOR_DIVERGENCE",
          is_concern |-> bullish_count >= 2 \/ bearish_count >= 2 ]

_check_indicator_divergence(sig) ==
    LET checked == << sig.rsi.signal, sig.macd.trend, sig.ema.signal, sig.candle.type >>
        bullish_count == CountIn(checked, {"BULLISH", "OVERSOLD"})
        bearish_count == CountIn(checked, {"BEARISH", "OVERBOUGHT"})
    IN  [ type |-> "INDICATOR_DIVERGENCE",
          is_concern |-> bullish_count >= 2 /\ bearish_count >= 2 ]

(* the running sum with the divergence concern left out *)
overall_risk_without_divergence(perfect, late, spike, divergent) ==
    LET r1 == IF perfect THEN PerfectSetupRisk ELSE 0
        r2 == IF late THEN r1 + LateEntryRisk ELSE r1
    IN  IF spike THEN r2 + VolatilitySpikeRisk ELSE r2

(* the running sum of analyze_setup over the four check results *)
overall_risk_of(perfect, late, spike, divergent) ==
    LET r0 == 0
        r1 == IF perfect THEN r0 + PerfectSetupRisk ELSE r0
        r2 == IF late THEN r1 + LateEntryRisk ELSE r1
        r3 == IF spike THEN r2 + VolatilitySpikeRisk ELSE r2
        r4 == IF divergent THEN r3 + DivergenceRisk ELSE r3
    IN  r4

(* the assessment comparing strictly *)
assessment_strict(overall_risk) ==
    IF overall_risk > 50 THEN "HIGH_RISK_TRAP"
    ELSE IF overall_risk > 25 THEN "MODERATE_RISK"
    ELSE "LOW_RISK"

(* the if / elif / else on overall_risk_score *)
assessment_of(overall_risk) ==
    IF overall_risk >= 50 THEN "HIGH_RISK_TRAP"
    ELSE IF overall_risk >= 25 THEN "MODERATE_RISK"
    ELSE "LOW_RISK"

analyze_setup(sig, historical_df, current_time) ==
    LET perfect_check == _check_perfect_setup(sig)
        late_entry_check == _check_late_entry(sig)
        volatility_check == _check_volatility_spike(sig, historical_df)
        divergence_check == _check_indicator_divergence(sig)
        t1 == IF perfect_check.is_trap THEN << perfect_check >> ELSE << >>
        t2 == IF late_entry_check.is_trap THEN Append(t1, late_entry_check) ELSE t1
        t3 == IF volatility_check.is_trap THEN Append(t2, volatility_check) ELSE t2
        overall_risk == overall_risk_of(perfect_check.is_trap, late_entry_check.is_trap,
                                        volatility_check.is_trap,
                                        divergence_check.is_concern)
    IN  [ traps_detected |-> t3,
          risk_factors |-> IF divergence_check.is_concern
                               THEN << divergence_check >> ELSE << >>,
          overall_risk_score |-> overall_risk,
          assessment |-> assessment_of(overall_risk),
          analysis_time |-> current_time ]

(***************************************************************************)
(* strategy.py: StrategyScorer.  Raw factor scores are in milli.           *)
(***************************************************************************)
(* config.SCORING_WEIGHTS, in percent *)
SCORING_WEIGHTS ==
    [ trend_alignment |-> 25, momentum |-> 20, volatility |-> 15,
      candle_pattern |-> 15, session_quality |-> 10, psychology_risk |-> -15 ]

Factors == << "trend_alignment", "momentum", "volatility", "candle_pattern",
              "session_quality", "psychology_risk" >>

(* config.SCORE_THRESHOLDS in dictionary order, in points *)
SCORE_THRESHOLDS ==
    << [ grade |-> "NO_TRADE", min_score |-> 0, max_score |-> 40 ],
       [ grade |-> "RISKY", min_score |-> 41, max_score |-> 60 ],
       [ grade |-> "ACCEPTABLE", min_score |-> 61, max_score |-> 75 ],
       [ grade |-> "HIGH_QUALITY", min_score |-> 76, max_score |-> 100 ] >>

(* config.TRADING_SESSIONS in dictionary order, hours *)
TRADING_SESSIONS ==
    << [ name |-> "ASIAN", start |-> 0, end |-> 8 ],
       [ name |-> "LONDON", start |-> 8, end |-> 16 ],
       [ name |-> "NEW_YORK", start |-> 13, end |-> 22 ],
       [ name |-> "OVERLAP", start |-> 13, end |-> 16 ] >>

_calculate_trend_score_raw(sig, tr) ==
    LET s0 == 500
        s1 == IF sig.ema.signal \in {"BULLISH", "BEARISH"} THEN s0 + 200 ELSE s0
        s2 == IF sig.ema.crossover \in {"BULLISH_CROSS", "BEARISH_CROSS"}
                  THEN s1 + 150 ELSE s1
        s3 == IF tr.given /\ tr.is_strong_trend THEN s2 + 150 ELSE s2
        s4 == IF tr.given
                 /\ ( (tr.trend = "UPTREND" /\ sig.overall_bias.direction = "BULLISH")
                      \/ (tr.trend = "DOWNTREND" /\ sig.overall_bias.direction = "BEARISH") )
                  THEN s3 + 100 ELSE s3
    IN  s4

(* the trend score without the final min(1.0, score) *)
_calculate_trend_score_uncapped(sig, tr) == _calculate_trend_score_raw(sig, tr)

_calculate_trend_score(sig, tr) == Min(1000, _calculate_trend_score_raw(sig, tr))

_calculate_momentum_score(sig) ==
    LET s0 == 500
        s1 == IF 4000 <= sig.rsi.value /\ sig.rsi.value <= 6000 THEN s0 + 150
              ELSE IF sig.rsi.signal \in {"OVERSOLD", "OVERBOUGHT"} THEN s0 + 100
              ELSE s0
        s2 == IF sig.macd.strength > 500 THEN s1 + 150 ELSE s1
        s3 == IF sig.macd.trend \in {"BULLISH", "BEARISH"} THEN s2 + 100 ELSE s2
        s4 == s3 + sig.overall_bias.confidence \div 10
    IN  Min(1000, s4)

(* vol.volatility_pct is in 1/10000 of a percent *)
_calculate_volatility_score(sig, vol) ==
    LET bb_width == sig.bollinger.width
        bb_percent == sig.bollinger.percent
        s0 == 500
        s1 == IF 100 <= bb_width /\ bb_width <= 300 THEN s0 + 250
              ELSE IF bb_width < 100 THEN s0 + 100
              ELSE s0 - 100
        s2 == IF 3000 <= bb_percent /\ bb_percent <= 7000 THEN s1 + 150
              ELSE IF bb_percent < 2000 \/ bb_percent > 8000 THEN s1 - 100
              ELSE s1
        s3 == IF vol.given /\ vol.is_high_volatility THEN s2 - 150 ELSE s2
        s4 == IF vol.given /\ 5000 <= vol.volatility_pct /\ vol.volatility_pct <= 20000
                  THEN s3 + 100 ELSE s3
    IN  Max(0, Min(1000, s4))

pattern_scores(candle_pattern) ==
    CASE candle_pattern = "HAMMER" -> 250
      [] candle_pattern = "INVERTED_HAMMER" -> 200
      [] candle_pattern = "MARUBOZU_BULLISH" -> 300
      [] candle_pattern = "MARUBOZU_BEARISH" -> 300
      [] candle_pattern = "DOJI" -> 100
      [] candle_pattern = "SPINNING_TOP" -> 50
      [] candle_pattern = "STANDARD" -> 150
      [] OTHER -> 0

_calculate_candle_score(sig) ==
    LET s0 == 500 + pattern_scores(sig.candle.pattern)
        bias_direction == sig.overall_bias.direction
        s1 == IF (sig.candle.type = "BULLISH" /\ bias_direction = "BULLISH")
                 \/ (sig.candle.type = "BEARISH" /\ bias_direction = "BEARISH")
                  THEN s0 + 150 ELSE s0
    IN  Min(1000, s1)

RECURSIVE first_session(_, _)
first_session(sessions, hour) ==
    IF sessions = << >> THEN "OFF_HOURS"
    ELSE IF Head(sessions).start <= hour /\ hour < Head(sessions).end
        THEN Head(sessions).name
    ELSE first_session(Tail(sessions), hour)

_get_current_session(hour) == first_session(TRADING_SESSIONS, hour)

session_scores(s) ==
    CASE s = "OVERLAP" -> 1000
      [] s = "LONDON" -> 850
      [] s = "NEW_YORK" -> 800
      [] s = "ASIAN" -> 600
      [] s = "OFF_HOURS" -> 300
      [] OTHER -> 500

(* perf: the rows of get_session_performance as a function from session   *)
(* name to [trades, wins]; a session without trades has no row             *)
_calculate_session_score_by_clock(sess, current_time, perf) ==
    LET s == _get_current_session(HourOf(current_time))
        base_score == session_scores(s)
    IN  IF s \in DOMAIN perf /\ perf[s].trades >= 10
            THEN (base_score * 7) \div 10 + (perf[s].wins * 300) \div perf[s].trades
            ELSE base_score

_calculate_session_score(sess, current_time, perf) ==
    LET current_hour == HourOf(current_time)
        s == IF sess = None THEN _get_current_session(current_hour) ELSE sess
        base_score == session_scores(s)
    IN  IF s \in DOMAIN perf /\ perf[s].trades >= 10
            THEN (base_score * 7) \div 10 + (perf[s].wins * 300) \div perf[s].trades
            ELSE base_score

(* the penalty added up from an assessment and its detected traps, milli *)
penalty_for(trap) ==
    LET p0 == IF trap.assessment = "HIGH_RISK_TRAP" THEN 500
              ELSE IF trap.assessment = "MODERATE_RISK" THEN 250
              ELSE 0
        add(t) == IF t.type = "PERFECT_SETUP_TRAP" THEN 200
                  ELSE IF t.type = "LATE_ENTRY_TRAP" THEN 150
                  ELSE IF t.type = "VOLATILITY_SPIKE" THEN 150
                  ELSE 0
        traps == trap.traps_detected
        p1 == p0 + (IF Len(traps) >= 1 THEN add(traps[1]) ELSE 0)
                 + (IF Len(traps) >= 2 THEN add(traps[2]) ELSE 0)
                 + (IF Len(traps) >= 3 THEN add(traps[3]) ELSE 0)
    IN  Min(1000, p1)

(* the detector is called with the snapshot alone: historical_df is None *)
_calculate_psychology_penalty(sig, current_time) ==
    penalty_for(analyze_setup(sig, NoFrame, current_time))

(* lines 284-306; score in 1/1000 of a point *)
RECURSIVE first_grade(_, _)
first_grade(thresholds, score) ==
    IF thresholds = << >> THEN "Unknown"
    ELSE IF Head(thresholds).min_score * 1000 <= score
            /\ score <= Head(thresholds).max_score * 1000
        THEN Head(thresholds).grade
    ELSE first_grade(Tail(thresholds), score)

_get_grade(score) == first_grade(SCORE_THRESHOLDS, score)

(* lines 55-74: the weighted sum, clamped; in 1/1000 of a point *)
RECURSIVE weighted_sum(_, _)
weighted_sum(factors, scores) ==
    IF factors = << >> THEN 0
    ELSE LET f == Head(factors)
             weight == SCORING_WEIGHTS[f]
             weighted_score == scores[f] * Abs(weight)
         IN  (IF weight < 0 THEN -weighted_score ELSE weighted_score)
             + weighted_sum(Tail(factors), scores)

calculate_score(sig, vol, tr, sess, current_time, perf) ==
    LET scores == [ trend_alignment |-> _calculate_trend_score(sig, tr),
                    momentum |-> _calculate_momentum_score(sig),
                    volatility |-> _calculate_volatility_score(sig, vol),
                    candle_pattern |-> _calculate_candle_score(sig),
                    session_quality |-> _calculate_session_score(sess, current_time, perf),
                    psychology_risk |-> _calculate_psychology_penalty(sig, current_time) ]
        final_score == Max(0, Min(100000, weighted_sum(Factors, scores)))
    IN  [ final_score |-> Round(final_score, 100),
          grade |-> _get_grade(final_score),
          breakdown |-> scores,
          timestamp |-> current_time ]

(***************************************************************************)
(* final/ai_engine.py: AIDecisionEngine.  A probability inside the engine  *)
(* is in 1/1000 of a percent (0.7 is 70000); the returned one is rounded   *)
(* to 1/10 of a percent.                                                   *)
(***************************************************************************)
min_training_samples == 100

confidence_threshold == 550           \* AI_CONFIG['confidence_threshold'], milli

(* the engine's trap detection without its late-entry test *)
_detect_perfect_setup_only(sig) ==
    LET bias == Get(sig, "overall_bias", NoDict)
        total_signals == Get(bias, "total_signals", 5)
        max_aligned == Max(Get(bias, "bullish_signals", 0), Get(bias, "bearish_signals", 0))
    IN  /\ total_signals > 0
        /\ max_aligned * 1000 >= perfect_setup_threshold * total_signals

_detect_trap_signals(sig) ==
    LET bias == Get(sig, "overall_bias", NoDict)
        total_signals == Get(bias, "total_signals", 5)
        max_aligned == Max(Get(bias, "bullish_signals", 0), Get(bias, "bearish_signals", 0))
        bb_percent == Get(Get(sig, "bollinger", NoDict), "percent", 5000)
    IN  \/ /\ total_signals > 0
           /\ max_aligned * 1000 >= perfect_setup_threshold * total_signals
        \/ bb_percent > late_entry_threshold
        \/ below_one_minus_threshold(bb_percent)

(* the recommendation looking at the probability alone *)
recommendation_without_traps(probability, sig) ==
    IF probability >= 70000 THEN "ENTER"
    ELSE IF probability >= confidence_threshold * 100 THEN "WAIT"
    ELSE "AVOID"

_generate_recommendation(probability, sig) ==
    IF _detect_trap_signals(sig) THEN "AVOID"
    ELSE IF probability >= 70000 THEN "ENTER"
    ELSE IF probability >= confidence_threshold * 100 THEN "WAIT"
    ELSE "AVOID"

_calculate_risk_level(probability, sig) ==
    LET base_risk == IF probability >= 70000 THEN "LOW"
                     ELSE IF probability >= 55000 THEN "MEDIUM"
                     ELSE "HIGH"
    IN  IF Get(Get(sig, "bollinger", NoDict), "width", 0) > 300
            THEN (IF base_risk = "LOW" THEN "MEDIUM" ELSE "HIGH")
            ELSE base_risk

(* probability * (0.5 + (rsi_strength + ema_strength) / 2 * 0.5), in 1/1000 *)
(* of a percent                                                            *)
scaled_probability(sig, direction) ==
    LET bias == Get(sig, "overall_bias", NoDict)
        bullish == Get(bias, "bullish_signals", 0)
        bearish == Get(bias, "bearish_signals", 0)
        total == Get(bias, "total_signals", 5)
        count == IF direction = "CALL" THEN bullish
                 ELSE IF direction = "PUT" THEN bearish
                 ELSE Max(bullish, bearish)
        base == IF total > 0 THEN (count * 100000) \div total ELSE 50000
        rsi_strength == Get(Get(sig, "rsi", NoDict), "strength", 500)
        ema_strength == Get(Get(sig, "ema", NoDict), "strength", 500)
    IN  (base * (2000 + rsi_strength + ema_strength)) \div 4000

(* the clamp keeping only the lower limit *)
clamp_probability_from_below(scaled) == Max(scaled, 20000)

(* probability = min(max(probability, 20), 80) *)
clamp_probability(scaled) == Min(Max(scaled, 20000), 80000)

_generate_rule_based_prediction(sig, direction) ==
    LET probability == clamp_probability(scaled_probability(sig, direction))
    IN  [ probability |-> Round(probability, 100),
          confidence |-> 500,
          recommendation |-> _generate_recommendation(probability, sig),
          risk_level |-> _calculate_risk_level(probability, sig),
          model_version |-> "rule_based" ]

(* the trained path of predict_trade; model_output is the classifier's     *)
(* P(win) for the feature vector, accuracy the stored metric (milli)       *)
trained_prediction(sig, direction, model_output, accuracy) ==
    LET bias_direction == Get(Get(sig, "overall_bias", NoDict), "direction", "NEUTRAL")
        counter_trend == (direction = "CALL" /\ bias_direction = "BEARISH")
                         \/ (direction = "PUT" /\ bias_direction = "BULLISH")
        win_probability == IF counter_trend THEN (model_output * 8) \div 10
                           ELSE model_output
    IN  [ probability |-> Round(win_probability, 100),
          confidence |-> accuracy,
          recommendation |-> _generate_recommendation(win_probability, sig),
          risk_level |-> _calculate_risk_level(win_probability, sig),
          model_version |-> "trained_at" ]

(* no model object: self.model = None *)
NoModel == [ run |-> None, fitted |-> FALSE ]

(* what the caller sees when predict_trade lets an exception out *)
RaisedPrediction ==
    [ probability |-> None, confidence |-> None, recommendation |-> None,
      risk_level |-> None, model_version |-> "raised" ]

(* predict_trade without the try / except around the trained path *)
predict_trade_propagating(sig, direction, trained, mdl, scl, inference) ==
    IF ~trained \/ mdl.run = None THEN _generate_rule_based_prediction(sig, direction)
    ELSE IF scl = "unfitted" \/ ~mdl.fitted \/ inference.outcome = "raise"
        THEN RaisedPrediction
    ELSE trained_prediction(sig, direction, inference.model_output, inference.accuracy)

(* predict_trade: inference is what the trained path does; "raise" stands  *)
(* for any exception inside the try block, and a scaler or a model that    *)
(* was never fitted raises NotFittedError there                            *)
predict_trade(sig, direction, trained, mdl, scl, inference) ==
    IF ~trained \/ mdl.run = None THEN _generate_rule_based_prediction(sig, direction)
    ELSE IF scl = "unfitted" \/ ~mdl.fitted \/ inference.outcome = "raise"
        THEN _generate_rule_based_prediction(sig, direction)
    ELSE trained_prediction(sig, direction, inference.model_output, inference.accuracy)

(***************************************************************************)
(* final/live_data.py: LiveSignalGenerator                                 *)
(***************************************************************************)
MinCandles == 30

WarnHighTrap == "HIGH TRAP RISK: Multiple manipulation patterns detected"
WarnModerateTrap == "Moderate trap risk detected"
WarnHighVolatility == "High volatility - increased risk"
WarnDangerous == "Setup flagged as dangerous"
WarnMarginal == "Marginal setup - proceed with caution"
WarnNoSetup == "No clear setup - wait for better opportunity"

(* a block of _determine_signal that falls through returns NoReturn *)
NoReturn == [ action |-> None, direction |-> None, confidence |-> None, warnings |-> << >> ]

(* the warnings collected before the decision: trap risk, then volatility *)
trap_warnings(trap_risk, vol) ==
    LET w1 == IF trap_risk >= 50 THEN << WarnHighTrap >>
              ELSE IF trap_risk >= 25 THEN << WarnModerateTrap >>
              ELSE << >>
    IN  IF vol.is_high_volatility THEN Append(w1, WarnHighVolatility) ELSE w1

(* the dangerous block comparing the trap risk strictly *)
dangerous_block_strict(ai_rec, trap_risk, warnings) ==
    IF ai_rec = "AVOID" \/ trap_risk > 50
        THEN [ action |-> "DO NOT TRADE", direction |-> None, confidence |-> "HIGH",
               warnings |-> Append(warnings, WarnDangerous) ]
        ELSE NoReturn

(* if ai_rec == 'AVOID' or trap_risk >= 50 *)
dangerous_block(ai_rec, trap_risk, warnings) ==
    IF ai_rec = "AVOID" \/ trap_risk >= 50
        THEN [ action |-> "DO NOT TRADE", direction |-> None, confidence |-> "HIGH",
               warnings |-> Append(warnings, WarnDangerous) ]
        ELSE NoReturn

(* the directional return selling on every bias that is not BULLISH *)
directional_else_sell(bias_direction, confidence, warnings) ==
    IF bias_direction = "BULLISH"
        THEN [ action |-> "BUY", direction |-> "CALL", confidence |-> confidence,
               warnings |-> warnings ]
        ELSE [ action |-> "SELL", direction |-> "PUT", confidence |-> confidence,
               warnings |-> warnings ]

(* a directional return of the strong or of the moderate block *)
directional(bias_direction, confidence, warnings) ==
    IF bias_direction = "BULLISH"
        THEN [ action |-> "BUY", direction |-> "CALL", confidence |-> confidence,
               warnings |-> warnings ]
    ELSE IF bias_direction = "BEARISH"
        THEN [ action |-> "SELL", direction |-> "PUT", confidence |-> confidence,
               warnings |-> warnings ]
    ELSE NoReturn

(* the strong block grading every score as HIGH *)
strong_block_always_high(score, ai_prob, trap_risk, bias_direction, warnings) ==
    IF score >= 700 /\ ai_prob >= 600 /\ trap_risk < 25
        THEN directional(bias_direction, "HIGH", warnings)
        ELSE NoReturn

(* if score >= 70 and ai_prob >= 60 and trap_risk < 25; score and ai_prob  *)
(* are in tenths (70 is 700)                                               *)
strong_block(score, ai_prob, trap_risk, bias_direction, warnings) ==
    IF score >= 700 /\ ai_prob >= 600 /\ trap_risk < 25
        THEN directional(bias_direction, IF score >= 800 THEN "HIGH" ELSE "MEDIUM",
                         warnings)
        ELSE NoReturn

(* the moderate block returning the collected warnings unchanged *)
moderate_block_no_warning(score, ai_prob, trap_risk, bias_direction, warnings) ==
    IF score >= 550 /\ ai_prob >= 550 /\ trap_risk < 40
        THEN directional(bias_direction, "LOW", warnings)
        ELSE NoReturn

(* the moderate block admitting a trap risk of 40 *)
moderate_block_risk_40(score, ai_prob, trap_risk, bias_direction, warnings) ==
    IF score >= 550 /\ ai_prob >= 550 /\ trap_risk <= 40
        THEN directional(bias_direction, "LOW", Append(warnings, WarnMarginal))
        ELSE NoReturn

(* if score >= 55 and ai_prob >= 55 and trap_risk < 40 *)
moderate_block(score, ai_prob, trap_risk, bias_direction, warnings) ==
    IF score >= 550 /\ ai_prob >= 550 /\ trap_risk < 40
        THEN directional(bias_direction, "LOW", Append(warnings, WarnMarginal))
        ELSE NoReturn

_determine_signal(score, ai_pred, trap, bias_direction, bias_confidence, vol) ==
    LET ai_rec == ai_pred.recommendation
        ai_prob == ai_pred.probability
        trap_risk == trap.overall_risk_score
        warnings == trap_warnings(trap_risk, vol)
        dangerous == dangerous_block(ai_rec, trap_risk, warnings)
        strong == strong_block(score, ai_prob, trap_risk, bias_direction, warnings)
        moderate == moderate_block(score, ai_prob, trap_risk, bias_direction, warnings)
    IN  IF dangerous /= NoReturn THEN dangerous
        ELSE IF strong /= NoReturn THEN strong
        ELSE IF moderate /= NoReturn THEN moderate
        ELSE [ action |-> "WAIT", direction |-> None, confidence |-> "MEDIUM",
               warnings |-> Append(warnings, WarnNoSetup) ]

(* LiveDataFetcher._get_session *)
_get_session(hour) ==
    IF 0 <= hour /\ hour < 8 THEN "ASIAN"
    ELSE IF 8 <= hour /\ hour < 13 THEN "LONDON"
    ELSE IF 13 <= hour /\ hour < 16 THEN "OVERLAP"
    ELSE IF 16 <= hour /\ hour < 22 THEN "NEW_YORK"
    ELSE "OFF_HOURS"

(* get_market_status()['current_session'] *)
current_session(hour, is_weekend) ==
    IF is_weekend THEN "CLOSED" ELSE _get_session(hour)

(***************************************************************************)
(* Inputs.  The numeric columns of the last bar come from the indicator    *)
(* library and the candle feed; they are drawn from samples that put a     *)
(* value on each side of every comparison the code makes.                  *)
(***************************************************************************)
MaxSessionTrades == 10      \* most trades recorded for one session
MaxCandles == 30            \* most candles the feed returns

Band == [ middle |-> 1000000, half |-> 500000 ]

(* pos: position of the close between the bands, in 1/100000 of the band;  *)
(* bb_percent is the library's (close - lower) / (upper - lower)           *)
MakeBar(rsi, prev_diff, diff, hist, pos, width, shape) ==
    LET lower == Band.middle - Band.half
        upper == Band.middle + Band.half
        close == lower + pos * ((upper - lower) \div 100000)
        open == close - shape.body
    IN  [ rsi |-> rsi,
          ema_slow |-> Band.middle, ema_fast |-> Band.middle + diff,
          prev_ema_slow |-> Band.middle, prev_ema_fast |-> Band.middle + prev_diff,
          macd |-> hist, macd_signal |-> 0, macd_histogram |-> hist,
          bb_upper |-> upper, bb_middle |-> Band.middle, bb_lower |-> lower,
          bb_width |-> width,
          bb_percent |-> (close - lower) \div ((upper - lower) \div 100000),
          close |-> close, open |-> open,
          high |-> Max(open, close) + shape.upper_wick,
          low |-> Min(open, close) - shape.lower_wick ]

Bars(Rsi, PrevDiff, Diff, Hist, Pos, Width, Shapes) ==
    { MakeBar(r, pd, d, h, p, w, sh) :
        r \in Rsi, pd \in PrevDiff, d \in Diff, h \in Hist, p \in Pos, w \in Width,
        sh \in Shapes }

Shape(body, upper_wick, lower_wick) ==
    [ body |-> body, upper_wick |-> upper_wick, lower_wick |-> lower_wick ]

MarubozuUp == Shape(1000, 0, 0)
MarubozuDown == Shape(-1000, 0, 0)
HammerUp == Shape(1000, 200, 2500)
InvertedHammerDown == Shape(-1000, 2500, 200)
SpinningTopUp == Shape(200, 500, 500)
StandardDown == Shape(-1000, 600, 600)
SmallBodyUp == Shape(100, 1000, 1000)
FlatDoji == Shape(0, 500, 500)
NoRange == Shape(0, 0, 0)

NoVolatility == [ given |-> FALSE, is_high_volatility |-> FALSE, volatility_pct |-> 0 ]
Volatility(high, pct) == [ given |-> TRUE, is_high_volatility |-> high, volatility_pct |-> pct ]

NoTrend == [ given |-> FALSE, trend |-> "UNKNOWN", is_strong_trend |-> FALSE ]
Trend(direction, strong) == [ given |-> TRUE, trend |-> direction, is_strong_trend |-> strong ]

NoHistory == [ s \in {} |-> 0 ]
SessionNames == {"ASIAN", "LONDON", "NEW_YORK", "OVERLAP", "OFF_HOURS"}
History(n_trades, n_wins) ==
    [ s \in SessionNames |-> [ trades |-> n_trades, wins |-> n_wins ] ]
Histories ==
    {NoHistory} \cup { History(t, w) : t \in {MaxSessionTrades - 1, MaxSessionTrades},
                                       w \in {0, MaxSessionTrades - 1} }

Frame(n, latest, mean) ==
    [ given |-> TRUE, n |-> n, latest |-> latest, bb_width_mean |-> mean ]

Inference(outcome, model_output, accuracy) ==
    [ outcome |-> outcome, model_output |-> model_output, accuracy |-> accuracy ]
Inferences ==
    { Inference("raise", 0, 0), Inference("ok", 75000, 620), Inference("ok", 58000, 620),
      Inference("ok", 40000, 620) }

(***************************************************************************)
(* generate_signal, one action per statement of its body                   *)
(***************************************************************************)
(* the engine after __init__: nothing on disk, both files loaded, or the   *)
(* model file loaded and the scaler file failing to load                   *)
Trainers == {"t1", "t2"}
IdleTrainer == [ pc |-> "idle", trades |-> 0, valid |-> 0, result |-> None ]
SavedModel == [ run |-> "saved", fitted |-> TRUE ]

(* no model file on disk *)
NoModelFile == [ model |-> NoModel, metrics |-> None ]

EngineUntrained ==
    /\ is_trained = FALSE /\ model = NoModel /\ scaler = "unfitted"
    /\ model_metrics = None /\ model_file = NoModelFile /\ scaler_file = None
    /\ trainer = [ t \in Trainers |-> IdleTrainer ]

EngineLoaded ==
    /\ is_trained = TRUE /\ model = SavedModel /\ scaler = "saved"
    /\ model_metrics = "saved"
    /\ model_file = [ model |-> SavedModel, metrics |-> "saved" ] /\ scaler_file = "saved"
    /\ trainer = [ t \in Trainers |-> IdleTrainer ]

EngineHalfLoaded ==
    /\ is_trained = FALSE /\ model = SavedModel /\ scaler = "unfitted"
    /\ model_metrics = "saved"
    /\ model_file = [ model |-> SavedModel, metrics |-> "saved" ] /\ scaler_file = "corrupt"
    /\ trainer = [ t \in Trainers |-> IdleTrainer ]

(***************************************************************************)
(* marketsense_ai/simulation.py: SimulationEngine, with the trades table   *)
(* of final/database.py and the pause rules of final/psychology.py.        *)
(* Money is in 1/100 of a cent, time in minutes.  trades holds the rows in *)
(* insertion order, the id of a row being its position; entry times never *)
(* decrease, so ORDER BY entry_time DESC is the reverse of that order.     *)
(***************************************************************************)
initial_balance == 100000000
max_daily_trades == 10
max_consecutive_losses == 3
max_drawdown_percent == 10
revenge_trade_window == 300

NoResult == [ op |-> None, success |-> TRUE, error |-> None, message |-> "" ]

Result(op, success, error, message) ==
    [ op |-> op, success |-> success, error |-> error, message |-> message ]

(* db.get_trades(limit): the newest rows first *)
get_trades(trs, limit) ==
    [ i \in 1..Min(limit, Len(trs)) |-> trs[Len(trs) + 1 - i] ]

(* the rows whose entry_time falls on the date of current_time *)
daily_count_closed_only(rows, current_time) ==
    Cardinality({ i \in DOMAIN rows :
                    rows[i].closed /\ DateOf(rows[i].entry_time) = DateOf(current_time) })

daily_count(rows, current_time) ==
    Cardinality({ i \in DOMAIN rows : DateOf(rows[i].entry_time) = DateOf(current_time) })

(* psychology._detect_revenge_trading over the newest 50 rows in ascending *)
(* order: a trade entered less than the window after a losing one          *)
revenge_instances(trs) ==
    LET rows == get_trades(trs, 50)
        n == Len(rows)
        asc(i) == rows[n + 1 - i]
    IN  Cardinality({ i \in 2..n :
                        /\ asc(i - 1).outcome = "LOSS"
                        /\ (asc(i).entry_time - asc(i - 1).entry_time) * 60
                               < revenge_trade_window })

LossReason(n) ==
    CASE n = 1 -> "Maximum consecutive losses (1) reached. Take a break."
      [] n = 2 -> "Maximum consecutive losses (2) reached. Take a break."
      [] OTHER -> "Maximum consecutive losses (3) reached. Take a break."

all_losses(rows) == \A i \in DOMAIN rows : rows[i].outcome = "LOSS"

(* psychology.should_pause_trading *)
should_pause_trading(trs, current_time) ==
    IF daily_count(get_trades(trs, 1000), current_time) >= max_daily_trades
        THEN [ pause |-> TRUE,
               reason |-> "Daily trade limit reached. Trading paused until tomorrow." ]
    ELSE IF revenge_instances(trs) >= 3
        THEN [ pause |-> TRUE,
               reason |-> "Multiple revenge trading instances detected. Take a 1-hour break." ]
    ELSE LET rows == get_trades(trs, 10)
             head == SubSeq(rows, 1, Min(max_consecutive_losses, Len(rows)))
         IN  IF Len(trs) > 0 /\ all_losses(head)
                 THEN [ pause |-> TRUE, reason |-> LossReason(Len(head)) ]
                 ELSE [ pause |-> FALSE, reason |-> "" ]

(* can_trade: the answer and the pause state it leaves behind *)
can_trade(trs, bal, paused, reason, current_time) ==
    IF paused
        THEN [ allowed |-> FALSE, reason |-> reason, is_paused |-> TRUE,
               pause_reason |-> reason ]
    ELSE LET p == should_pause_trading(trs, current_time)
         IN  IF p.pause
                 THEN [ allowed |-> FALSE, reason |-> p.reason, is_paused |-> TRUE,
                        pause_reason |-> p.reason ]
             ELSE IF daily_count(get_trades(trs, 100), current_time) >= max_daily_trades
                 THEN [ allowed |-> FALSE, reason |-> "Daily trade limit (10) reached",
                        is_paused |-> FALSE, pause_reason |-> reason ]
             ELSE IF (initial_balance - bal) * 100 >= max_drawdown_percent * initial_balance
                 THEN [ allowed |-> FALSE, reason |-> "Maximum drawdown reached",
                        is_paused |-> FALSE, pause_reason |-> reason ]
             ELSE [ allowed |-> TRUE, reason |-> "Trading allowed",
                    is_paused |-> FALSE, pause_reason |-> reason ]

(* round(balance * risk_per_trade, 2) with risk_per_trade 0.02 *)
calculate_position_size(bal) == 100 * Round(bal * 2, 10000)

(* the row execute_trade inserts; the analysis columns do not enter any    *)
(* rule of the engine and are left out                                     *)
new_trade(current_time, direction, bal) ==
    [ entry_time |-> current_time, direction |-> direction,
      amount |-> calculate_position_size(bal),
      closed |-> FALSE, outcome |-> None, pnl |-> 0 ]

(* move: (exit_price - entry_price) / entry_price in 1/10000 *)
pnl_of(trade, move) ==
    (trade.amount * (IF trade.direction = "CALL" THEN move ELSE -move)) \div 10000

closed_trade(trade, move) ==
    [ trade EXCEPT !.closed = TRUE,
                   !.outcome = IF pnl_of(trade, move) > 0 THEN "WIN" ELSE "LOSS",
                   !.pnl = 100 * Round(pnl_of(trade, move), 100) ]

(* _check_consecutive_losses: the pause state after a close *)
_check_consecutive_losses(trs, paused, reason) ==
    LET recent_trades == get_trades(trs, max_consecutive_losses)
    IN  IF Len(trs) > 0 /\ all_losses(recent_trades)
            THEN [ is_paused |-> TRUE, pause_reason |-> LossReason(max_consecutive_losses) ]
            ELSE [ is_paused |-> paused, pause_reason |-> reason ]

(* MarketSenseBot.__init__ and SimulationEngine.__init__ on an empty database *)
SimulationIdle ==
    /\ trades = << >> /\ balance = initial_balance /\ balance_time = 0
    /\ is_paused = FALSE /\ pause_reason = "" /\ last_result = NoResult
    /\ mode = "simulation"

(* the wall clock, no earlier run kept for comparison, no call made yet *)
ClockAt(times) == now \in times /\ first_run = NoDict /\ call = None

SampleTimes == { 3 * 60, 14 * 60, 23 * 60 }

PipelineBars ==
    Bars({25000, 50000, 75000}, {-10000}, {-50000, 0, 100000}, {0, 8000},
         {15000, 30000, 50000, 50004, 70000, 85000}, {2000, 6000},
         {MarubozuUp, StandardDown})

CandleCounts == {0, MaxCandles - 1, MaxCandles}

no_data_as_wait(current_time) ==
    [ signal |-> "WAIT", direction |-> None, confidence |-> "MEDIUM", warnings |-> << >>,
      score |-> None, probability |-> None, risk_level |-> None, session |-> None,
      timestamp |-> current_time ]

NoDataSignal(current_time) ==
    [ signal |-> "NO_DATA", direction |-> None, confidence |-> None, warnings |-> << >>,
      score |-> None, probability |-> None, risk_level |-> None, session |-> None,
      timestamp |-> current_time ]

(* df = self.data_fetcher.fetch_live_data(asset, timeframe), and the       *)
(* return of NO_DATA when the frame is empty or shorter than 30            *)
FetchLiveData ==
    /\ pc = "fetch"
    /\ \E n \in CandleCounts :
         IF n < MinCandles
             THEN /\ pc' = "done"
                  /\ df' = [ given |-> TRUE, n |-> n ]
                  /\ signal' = NoDataSignal(now)
             ELSE /\ pc' = "indicators"
                  /\ \E bar \in PipelineBars, mean \in {1500, 4000} :
                        df' = Frame(n, bar, mean)
                  /\ signal' = signal
    /\ UNCHANGED <<call_vars, engine_vars, simulation_vars>>
    /\ UNCHANGED <<session_perf, signals, volatility, trend, session,
                   score_result, trap_analysis, ai_prediction>>

CalculateAllIndicators ==
    /\ pc = "indicators"
    /\ pc' = "signals"
    /\ df' = [ df EXCEPT !.latest = calculate_all_indicators(df.latest) ]
    /\ UNCHANGED <<call_vars, engine_vars, simulation_vars>>
    /\ UNCHANGED <<session_perf, signals, volatility, trend, session,
                   score_result, trap_analysis, ai_prediction, signal>>

GetCurrentSignals ==
    /\ pc = "signals"
    /\ pc' = "volatility"
    /\ signals' = get_current_signals(df.latest)
    /\ UNCHANGED <<call_vars, engine_vars, simulation_vars>>
    /\ UNCHANGED <<session_perf, df, volatility, trend, session,
                   score_result, trap_analysis, ai_prediction, signal>>

(* the ATR figures are computed from the candle history *)
CalculateVolatility ==
    /\ pc = "volatility"
    /\ pc' = "trend"
    /\ volatility' \in { Volatility(FALSE, 10000), Volatility(TRUE, 30000) }
    /\ UNCHANGED <<call_vars, engine_vars, simulation_vars>>
    /\ UNCHANGED <<session_perf, df, signals, trend, session,
                   score_result, trap_analysis, ai_prediction, signal>>

(* the regression figures are computed from the candle history *)
GetTrendStrength ==
    /\ pc = "trend"
    /\ pc' = "status"
    /\ trend' \in { Trend("UPTREND", TRUE), Trend("SIDEWAYS", FALSE) }
    /\ UNCHANGED <<call_vars, engine_vars, simulation_vars>>
    /\ UNCHANGED <<session_perf, df, signals, volatility, session,
                   score_result, trap_analysis, ai_prediction, signal>>

GetMarketStatus ==
    /\ pc = "status"
    /\ pc' = "score"
    /\ \E hour \in {14, 23}, is_weekend \in {FALSE} :
         session' = current_session(hour, is_weekend)
    /\ UNCHANGED <<call_vars, engine_vars, simulation_vars>>
    /\ UNCHANGED <<session_perf, df, signals, volatility, trend,
                   score_result, trap_analysis, ai_prediction, signal>>

CalculateScore ==
    /\ pc = "score"
    /\ pc' = "traps"
    /\ score_result' = calculate_score(signals, volatility, trend, session, now,
                                     session_perf)
    /\ UNCHANGED <<call_vars, engine_vars, simulation_vars>>
    /\ UNCHANGED <<session_perf, df, signals, volatility, trend, session,
                   trap_analysis, ai_prediction, signal>>

AnalyzeSetup ==
    /\ pc = "traps"
    /\ pc' = "predict"
    /\ trap_analysis' = analyze_setup(signals, df, now)
    /\ UNCHANGED <<call_vars, engine_vars, simulation_vars>>
    /\ UNCHANGED <<session_perf, df, signals, volatility, trend, session,
                   score_result, ai_prediction, signal>>

PredictTrade ==
    /\ pc = "predict"
    /\ pc' = "decide"
    /\ LET bias_direction == signals.overall_bias.direction
           direction == IF bias_direction = "BULLISH" THEN "CALL"
                        ELSE IF bias_direction = "BEARISH" THEN "PUT"
                        ELSE None
       IN  \E inference \in Inferences :
             ai_prediction' = predict_trade(signals, direction, is_trained, model, scaler,
                                             inference)
    /\ UNCHANGED <<call_vars, engine_vars, simulation_vars>>
    /\ UNCHANGED <<session_perf, df, signals, volatility, trend, session,
                   score_result, trap_analysis, signal>>

DetermineSignal ==
    /\ pc = "decide"
    /\ pc' = "done"
    /\ LET bias == signals.overall_bias
           d == _determine_signal(score_result.final_score, ai_prediction, trap_analysis,
                                  bias.direction, bias.confidence, volatility)
       IN  signal' = [ signal |-> d.action, direction |-> d.direction,
                       confidence |-> d.confidence, warnings |-> d.warnings,
                       score |-> score_result.final_score,
                       probability |-> ai_prediction.probability,
                       risk_level |-> ai_prediction.risk_level,
                       session |-> session,
                       timestamp |-> now ]
    /\ UNCHANGED <<call_vars, engine_vars, simulation_vars>>
    /\ UNCHANGED <<session_perf, df, signals, volatility, trend, session,
                   score_result, trap_analysis, ai_prediction>>

Init ==
    /\ pc = "fetch"
    /\ EngineUntrained \/ EngineLoaded
    /\ SimulationIdle
    /\ ClockAt(SampleTimes)
    /\ session_perf \in { NoHistory, History(MaxSessionTrades, MaxSessionTrades - 1) }
    /\ df = None
    /\ signals = None
    /\ volatility = None
    /\ trend = None
    /\ session = None
    /\ score_result = None
    /\ trap_analysis = None
    /\ ai_prediction = None
    /\ signal = None

Next ==
    \/ FetchLiveData
    \/ CalculateAllIndicators
    \/ GetCurrentSignals
    \/ CalculateVolatility
    \/ GetTrendStrength
    \/ GetMarketStatus
    \/ CalculateScore
    \/ AnalyzeSetup
    \/ PredictTrade
    \/ DetermineSignal

Spec == Init /\ [][Next]_vars

(***************************************************************************)
(* The scoring and decision stages run twice on the same snapshot, session *)
(* and session history, the second run at a later time.  The snapshot      *)
(* carries the timestamp of its last candle, which is part of the input.   *)
(***************************************************************************)
RepeatBars ==
    Bars({25000, 50000}, {-10000}, {-50000, 100000}, {8000},
         {15000, 50000}, {2000}, {MarubozuUp, StandardDown})

(* minutes between the two runs: within the hour, into another session,    *)
(* into the next day                                                       *)
Delays == {0, 1, 11 * 60, 24 * 60}

RunOutputs ==
    [ at |-> now, score_result |-> score_result, trap_analysis |-> trap_analysis,
      ai_prediction |-> ai_prediction, signal |-> signal ]

(* the caller keeps the outputs of the first run and calls again *)
RunAgain ==
    /\ pc = "done"
    /\ first_run = NoDict
    /\ first_run' = RunOutputs
    /\ \E delay \in Delays : now' = now + delay
    /\ pc' = "score"
    /\ UNCHANGED <<call, engine_vars, simulation_vars>>
    /\ UNCHANGED <<session_perf, df, signals, volatility, trend, session,
                   score_result, trap_analysis, ai_prediction, signal>>

InitRepeat ==
    /\ pc = "score"
    /\ EngineUntrained
    /\ SimulationIdle
    /\ ClockAt({3 * 60, 14 * 60})
    /\ session_perf \in { NoHistory, History(MaxSessionTrades, MaxSessionTrades - 1) }
    /\ \E bar \in RepeatBars :
         /\ df = Frame(MaxCandles, calculate_all_indicators(bar), 1500)
         /\ signals = get_current_signals(calculate_all_indicators(bar))
    /\ volatility = Volatility(FALSE, 10000)
    /\ trend \in { Trend("UPTREND", TRUE), Trend("SIDEWAYS", FALSE) }
    /\ session \in { None, "LONDON", "OFF_HOURS" }
    /\ score_result = None
    /\ trap_analysis = None
    /\ ai_prediction = None
    /\ signal = None

NextRepeat ==
    \/ CalculateScore
    \/ AnalyzeSetup
    \/ PredictTrade
    \/ DetermineSignal
    \/ RunAgain

SpecRepeat == InitRepeat /\ [][NextRepeat]_vars

(***************************************************************************)
(* _calculate_overall_bias on its own: every row of the five signals       *)
(***************************************************************************)
SignalRows ==
    [ rsi_signal : {"OVERBOUGHT", "OVERSOLD", "BULLISH", "BEARISH", "NEUTRAL"},
      ema_signal : {"BULLISH", "BEARISH", "NEUTRAL"},
      macd_trend : {"BULLISH", "BEARISH", "NEUTRAL"},
      bb_signal : {"OVERBOUGHT", "OVERSOLD", "BULLISH", "BEARISH", "NEUTRAL"},
      candle_type : {"BULLISH", "BEARISH", "DOJI"} ]

CalculateOverallBias ==
    /\ pc = "signals"
    /\ pc' = "volatility"
    /\ signals' = [ overall_bias |-> _calculate_overall_bias(df.latest) ]
    /\ UNCHANGED <<call_vars, engine_vars, simulation_vars>>
    /\ UNCHANGED <<session_perf, df, volatility, trend, session,
                   score_result, trap_analysis, ai_prediction, signal>>

InitBias ==
    /\ pc = "signals"
    /\ EngineUntrained
    /\ SimulationIdle
    /\ ClockAt({14 * 60})
    /\ session_perf = NoHistory
    /\ \E row \in SignalRows : df = [ given |-> TRUE, n |-> MaxCandles, latest |-> row ]
    /\ signals = None
    /\ volatility = None
    /\ trend = None
    /\ session = None
    /\ score_result = None
    /\ trap_analysis = None
    /\ ai_prediction = None
    /\ signal = None

SpecBias == InitBias /\ [][CalculateOverallBias]_vars

(***************************************************************************)
(* final/ai_engine.py: train_model, called by two threads on the one       *)
(* engine object get_ai_engine() hands out.  Each statement of train_model *)
(* that reads or writes the engine or the files is one step; the code      *)
(* holds no lock.  A model, a scaler, the metrics and the files are named  *)
(* by the run whose data they were computed from.                          *)
(***************************************************************************)
TradeCounts ==
    {0, min_training_samples - 1, min_training_samples, min_training_samples + 50}

(* the trades that have both an indicator snapshot and an outcome *)
ValidCounts(n_trades) == { v \in {min_training_samples - 1, n_trades} : v <= n_trades }

Step(t, to) == trainer' = [ trainer EXCEPT ![t].pc = to ]

Return(t, result) == trainer' = [ trainer EXCEPT ![t].pc = "done", ![t].result = result ]

too_few_trades(n_trades) ==
    [ success |-> FALSE, message |-> "Insufficient training data",
      current_samples |-> n_trades ]

too_few_valid_samples(n_valid) ==
    [ success |-> FALSE, message |-> "Insufficient valid training samples",
      valid_samples |-> n_valid ]

(* lines 139-147: trades_df = db.get_trades(limit=10000) and the first     *)
(* return                                                                  *)
ReadTrades(t) ==
    /\ trainer[t].pc = "idle"
    /\ \E n \in TradeCounts :
         IF n < min_training_samples
             THEN Return(t, too_few_trades(n))
             ELSE trainer' = [ trainer EXCEPT ![t].pc = "prepare", ![t].trades = n ]
    /\ UNCHANGED <<is_trained, model, scaler, model_metrics, model_file, scaler_file>>
    /\ UNCHANGED <<pipeline_vars, call_vars, simulation_vars>>

(* lines 149-168: the loop that builds X, y and the second return *)
PrepareData(t) ==
    /\ trainer[t].pc = "prepare"
    /\ \E v \in ValidCounts(trainer[t].trades) :
         IF v < min_training_samples
             THEN Return(t, too_few_valid_samples(v))
             ELSE trainer' = [ trainer EXCEPT ![t].pc = "scale", ![t].valid = v ]
    /\ UNCHANGED <<is_trained, model, scaler, model_metrics, model_file, scaler_file>>
    /\ UNCHANGED <<pipeline_vars, call_vars, simulation_vars>>

(* line 174: X_scaled = self.scaler.fit_transform(X) refits the one scaler *)
FitScaler(t) ==
    /\ trainer[t].pc = "scale"
    /\ scaler' = t
    /\ Step(t, "new_model")
    /\ UNCHANGED <<is_trained, model, model_metrics, model_file, scaler_file>>
    /\ UNCHANGED <<pipeline_vars, call_vars, simulation_vars>>

(* lines 182-189: self.model = RandomForestClassifier(...) *)
NewModel(t) ==
    /\ trainer[t].pc = "new_model"
    /\ model' = [ run |-> t, fitted |-> FALSE ]
    /\ Step(t, "fit")
    /\ UNCHANGED <<is_trained, scaler, model_metrics, model_file, scaler_file>>
    /\ UNCHANGED <<pipeline_vars, call_vars, simulation_vars>>

(* line 191: self.model.fit(X_train, y_train) fits whatever object         *)
(* self.model names at that moment                                         *)
FitModel(t) ==
    /\ trainer[t].pc = "fit"
    /\ model' = [ run |-> t, fitted |-> TRUE ]
    /\ Step(t, "metrics")
    /\ UNCHANGED <<is_trained, scaler, model_metrics, model_file, scaler_file>>
    /\ UNCHANGED <<pipeline_vars, call_vars, simulation_vars>>

(* lines 194-208 *)
SetMetrics(t) ==
    /\ trainer[t].pc = "metrics"
    /\ model_metrics' = t
    /\ Step(t, "save_model")
    /\ UNCHANGED <<is_trained, model, scaler, model_file, scaler_file>>
    /\ UNCHANGED <<pipeline_vars, call_vars, simulation_vars>>

(* _save_model, lines 65-73: pickle.dump of self.model and the metrics *)
WriteModelFile(t) ==
    /\ trainer[t].pc = "save_model"
    /\ model_file' = [ model |-> model, metrics |-> model_metrics ]
    /\ Step(t, "save_scaler")
    /\ UNCHANGED <<is_trained, model, scaler, model_metrics, scaler_file>>
    /\ UNCHANGED <<pipeline_vars, call_vars, simulation_vars>>

(* _save_model, lines 75-76: pickle.dump of self.scaler *)
WriteScalerFile(t) ==
    /\ trainer[t].pc = "save_scaler"
    /\ scaler_file' = scaler
    /\ Step(t, "mark")
    /\ UNCHANGED <<is_trained, model, scaler, model_metrics, model_file>>
    /\ UNCHANGED <<pipeline_vars, call_vars, simulation_vars>>

(* lines 221-229: self.is_trained = True and the success return *)
MarkTrained(t) ==
    /\ trainer[t].pc = "mark"
    /\ is_trained' = TRUE
    /\ Return(t, [ success |-> TRUE, metrics |-> model_metrics ])
    /\ UNCHANGED <<model, scaler, model_metrics, model_file, scaler_file>>
    /\ UNCHANGED <<pipeline_vars, call_vars, simulation_vars>>

train_model(t) ==
    \/ ReadTrades(t)
    \/ PrepareData(t)
    \/ FitScaler(t)
    \/ NewModel(t)
    \/ FitModel(t)
    \/ SetMetrics(t)
    \/ WriteModelFile(t)
    \/ WriteScalerFile(t)
    \/ MarkTrained(t)

NextTrain == \E t \in Trainers : train_model(t)

InitTrain ==
    /\ pc = "idle"
    /\ EngineUntrained \/ EngineLoaded
    /\ SimulationIdle
    /\ ClockAt({14 * 60})
    /\ session_perf = NoHistory
    /\ df = None
    /\ signals = None
    /\ volatility = None
    /\ trend = None
    /\ session = None
    /\ score_result = None
    /\ trap_analysis = None
    /\ ai_prediction = None
    /\ signal = None

SpecTrain == InitTrain /\ [][NextTrain]_vars

(***************************************************************************)
(* The simulation engine driven by its callers: execute_trade, close_trade *)
(* and resume_trading in any order, with time passing between the calls.   *)
(***************************************************************************)
MaxLossTrades == 3      \* rows in the trades table of SpecLosses
MaxDailyTrades == 11    \* rows in the trades table of SpecDaily
LastDay == 1            \* the clock stops at the end of this day

TradeDirections == {"CALL", "PUT"}

(* exit_price against entry_price, in 1/10000: one percent down or up *)
ExitMoves == {-100, 100}

(* execute_trade, lines 150-233; enough_candles: analyze_setup found the   *)
(* 50 candles it needs                                                     *)
ExecuteTrade(direction, enough_candles, force) ==
    LET c == can_trade(trades, balance, is_paused, pause_reason, now)
    IN  /\ is_paused' = c.is_paused
        /\ pause_reason' = c.pause_reason
        /\ IF ~c.allowed /\ ~force
               THEN /\ trades' = trades
                    /\ last_result' = Result("execute_trade", FALSE, "TRADING_BLOCKED",
                                             c.reason)
           ELSE IF ~enough_candles
               THEN /\ trades' = trades
                    /\ last_result' = Result("execute_trade", FALSE, "ANALYSIS_FAILED",
                                             "Insufficient data")
           ELSE /\ trades' = Append(trades, new_trade(now, direction, balance))
                /\ last_result' = Result("execute_trade", TRUE, None, "")
        /\ UNCHANGED <<balance, balance_time, mode, pipeline_vars, call_vars, engine_vars>>

(* simulation.execute_trade called directly, with or without force *)
Execute ==
    /\ Len(trades) < MaxLossTrades
    /\ \E direction \in TradeDirections, enough_candles \in BOOLEAN, force \in BOOLEAN :
         ExecuteTrade(direction, enough_candles, force)

(* bot.execute with the mode test left out *)
execute_in_any_mode(direction, enough_candles) ==
    ExecuteTrade(direction, enough_candles, FALSE)

(* bot.execute, lines 172-184: execute_trade without force, in simulation  *)
(* mode only                                                               *)
execute(direction, enough_candles) ==
    IF mode /= "simulation"
        THEN /\ last_result' = Result("execute", FALSE, "AUTO_TRADE_DISABLED",
                                      "Automatic execution only available in simulation mode")
             /\ UNCHANGED <<trades, balance, balance_time, is_paused, pause_reason, mode,
                            pipeline_vars, call_vars, engine_vars>>
        ELSE ExecuteTrade(direction, enough_candles, FALSE)

BotExecute ==
    /\ Len(trades) < MaxDailyTrades
    /\ \E direction \in TradeDirections, enough_candles \in BOOLEAN :
         execute(direction, enough_candles)

(* update_balance followed by get_current_balance: the balances the query  *)
(* ORDER BY timestamp DESC LIMIT 1 can return once new_balance is          *)
(* inserted.  CURRENT_TIMESTAMP has a resolution of one second; a row      *)
(* inserted in the second of the row returned so far ties with it, and the *)
(* query may return either.                                                *)
update_balance(current_balance, current_timestamp, new_balance, current_time) ==
    IF current_timestamp = current_time
        THEN {new_balance, current_balance}
        ELSE {new_balance}

(* close_trade, lines 235-306 *)
close_trade(trade_id, move) ==
    IF trade_id \notin DOMAIN trades
        THEN /\ last_result' = Result("close_trade", FALSE, "TRADE_NOT_FOUND", "")
             /\ UNCHANGED <<trades, balance, balance_time, is_paused, pause_reason>>
    ELSE IF trades[trade_id].closed
        THEN /\ last_result' = Result("close_trade", FALSE, "TRADE_ALREADY_CLOSED", "")
             /\ UNCHANGED <<trades, balance, balance_time, is_paused, pause_reason>>
    ELSE LET updated == [ trades EXCEPT ![trade_id] = closed_trade(trades[trade_id], move) ]
             check == _check_consecutive_losses(updated, is_paused, pause_reason)
         IN  /\ trades' = updated
             /\ balance' \in update_balance(balance, balance_time,
                                             balance + pnl_of(trades[trade_id], move), now)
             /\ balance_time' = now
             /\ is_paused' = check.is_paused
             /\ pause_reason' = check.pause_reason
             /\ last_result' = Result("close_trade", TRUE, None, "")

(* the ids a caller closes: the oldest trade, every open trade and one id  *)
(* that is not in the table                                                *)
CloseIds ==
    { trade_id \in 1..(Len(trades) + 1) :
        trade_id = 1 \/ trade_id = Len(trades) + 1 \/ ~trades[trade_id].closed }

CloseTrade ==
    /\ \E trade_id \in CloseIds, move \in ExitMoves : close_trade(trade_id, move)
    /\ UNCHANGED <<mode, pipeline_vars, call_vars, engine_vars>>

(* resume_trading, lines 362-382 *)
ResumeTrading ==
    /\ IF ~is_paused
           THEN /\ last_result' = Result("resume_trading", TRUE, None, "Trading was not paused")
                /\ UNCHANGED <<is_paused, pause_reason>>
           ELSE /\ is_paused' = FALSE
                /\ pause_reason' = ""
                /\ last_result' = Result("resume_trading", TRUE, None, "Trading resumed")
    /\ UNCHANGED <<trades, balance, balance_time, mode, pipeline_vars, call_vars, engine_vars>>

(* nothing is called for some minutes *)
wait(minutes) ==
    /\ DateOf(now + minutes) <= LastDay
    /\ now' = now + minutes
    /\ UNCHANGED <<first_run, call, pipeline_vars, engine_vars, simulation_vars>>

(* five minutes pass after the last trade was entered, or a day passes *)
PassTime ==
    \E minutes \in {5, 24 * 60} :
        /\ minutes = 5 => Len(trades) > 0 /\ trades[Len(trades)].entry_time = now
        /\ wait(minutes)

(* a day passes *)
NextDay ==
    /\ DateOf(now) < LastDay
    /\ wait(24 * 60)

NoPipeline ==
    /\ pc = "idle"
    /\ session_perf = NoHistory
    /\ df = None
    /\ signals = None
    /\ volatility = None
    /\ trend = None
    /\ session = None
    /\ score_result = None
    /\ trap_analysis = None
    /\ ai_prediction = None
    /\ signal = None

InitLosses ==
    /\ NoPipeline
    /\ EngineUntrained
    /\ SimulationIdle
    /\ ClockAt({14 * 60})

NextLosses ==
    \/ Execute
    \/ CloseTrade
    \/ ResumeTrading
    \/ PassTime

SpecLosses == InitLosses /\ [][NextLosses]_vars

(* the table and the balance after the trades of a day, entered ten        *)
(* minutes apart from 09:00 and each closed at once with the given move    *)
RECURSIVE SeededWith(_)
SeededWith(moves) ==
    IF moves = << >> THEN [ trades |-> << >>, balance |-> initial_balance ]
    ELSE LET n == Len(moves)
             before == SeededWith(SubSeq(moves, 1, n - 1))
             trade == new_trade(9 * 60 + 10 * (n - 1), "CALL", before.balance)
         IN  [ trades |-> Append(before.trades, closed_trade(trade, moves[n])),
               balance |-> before.balance + pnl_of(trade, moves[n]) ]

(* n winning trades, each closed one percent up *)
Seeded(n) == SeededWith([ k \in 1..n |-> 100 ])

InitDaily ==
    /\ NoPipeline
    /\ EngineUntrained
    /\ ClockAt({11 * 60})
    /\ trades = Seeded(max_daily_trades - 1).trades
    /\ balance = Seeded(max_daily_trades - 1).balance
    /\ balance_time = trades[Len(trades)].entry_time
    /\ is_paused = FALSE /\ pause_reason = "" /\ last_result = NoResult
    /\ mode = "simulation"

NextDaily ==
    \/ BotExecute
    \/ CloseTrade
    \/ ResumeTrading
    \/ NextDay

SpecDaily == InitDaily /\ [][NextDaily]_vars

(***************************************************************************)
(* Pausing and resuming: execute_trade without force, close_trade and      *)
(* resume_trading on a table that holds a win followed by two losses.      *)
(***************************************************************************)
MaxResumeTrades == 5    \* rows in the trades table of SpecResume

ExecuteUnforced ==
    /\ Len(trades) < MaxResumeTrades
    /\ \E direction \in TradeDirections, enough_candles \in BOOLEAN :
         ExecuteTrade(direction, enough_candles, FALSE)

InitResume ==
    /\ NoPipeline
    /\ EngineUntrained
    /\ ClockAt({11 * 60})
    /\ trades = SeededWith(<<100, -100, -100>>).trades
    /\ balance = SeededWith(<<100, -100, -100>>).balance
    /\ balance_time = trades[Len(trades)].entry_time
    /\ is_paused = FALSE /\ pause_reason = "" /\ last_result = NoResult
    /\ mode = "simulation"

NextResume ==
    \/ ExecuteUnforced
    \/ CloseTrade
    \/ ResumeTrading
    \/ PassTime

SpecResume == InitResume /\ [][NextResume]_vars

(***************************************************************************)
(* The bot switched between its two modes while trades are executed,       *)
(* closed and resumed through it.                                          *)
(***************************************************************************)
MaxModeTrades == 2      \* rows in the trades table of SpecMode

Modes == {"simulation", "manual_assist", "live"}

(* set_mode, lines 80-95 *)
set_mode(new_mode) ==
    IF new_mode \notin {"simulation", "manual_assist"}
        THEN /\ last_result' = Result("set_mode", FALSE, "Invalid mode", "")
             /\ mode' = mode
        ELSE /\ mode' = new_mode
             /\ last_result' = Result("set_mode", TRUE, None, "Mode set")

SetMode ==
    /\ \E new_mode \in Modes : set_mode(new_mode)
    /\ UNCHANGED <<trades, balance, balance_time, is_paused, pause_reason,
                   pipeline_vars, call_vars, engine_vars>>

ExecuteInMode ==
    /\ Len(trades) < MaxModeTrades
    /\ \E direction \in TradeDirections, enough_candles \in BOOLEAN :
         execute(direction, enough_candles)

InitMode ==
    /\ NoPipeline
    /\ EngineUntrained
    /\ SimulationIdle
    /\ ClockAt({14 * 60})

NextMode ==
    \/ SetMode
    \/ ExecuteInMode
    \/ CloseTrade
    \/ ResumeTrading

SpecMode == InitMode /\ [][NextMode]_vars

(***************************************************************************)
(* _calculate_emas on its own: the ema_signal column and the crossover     *)
(* loop over a series of bars.  The first bars of a series may have no     *)
(* EMA yet (NaN); every comparison with NaN is false.                      *)
(***************************************************************************)
MaxSeries == 4          \* bars in the series of SpecCross

(* ema_fast against an ema_slow of 2: below, equal, above *)
EmaRows == { [ defined |-> TRUE, ema_fast |-> f, ema_slow |-> 2 ] : f \in 1..3 }

NaNRow == [ defined |-> FALSE, ema_fast |-> 0, ema_slow |-> 0 ]

(* series of 1..MaxSeries bars whose undefined bars come first *)
Series ==
    UNION { { [ k \in 1..n |-> IF k <= warm THEN NaNRow ELSE tail[k] ] :
                tail \in [ 1..n -> EmaRows ] } :
            n \in 1..MaxSeries, warm \in 0..1 }

(* the np.where of lines 87-90 on one row *)
ema_signal_at(series, k) ==
    IF series[k].defined THEN ema_signal_of(series[k]) ELSE "NEUTRAL"

(* the body of the loop of lines 94-101 for the row k, k >= 2 *)
ema_crossover_at(series, k) ==
    IF series[k].defined /\ series[k - 1].defined
        THEN ema_crossover_of([ prev_ema_fast |-> series[k - 1].ema_fast,
                                prev_ema_slow |-> series[k - 1].ema_slow,
                                ema_fast |-> series[k].ema_fast,
                                ema_slow |-> series[k].ema_slow ])
        ELSE "NONE"

EmaSignalColumn ==
    /\ pc = "ema_signal"
    /\ pc' = "ema_crossover"
    /\ df' = [ i |-> 2,
               rows |-> [ k \in DOMAIN call.series |->
                            [ ema_signal |-> ema_signal_at(call.series, k),
                              ema_crossover |-> "NONE" ] ] ]
    /\ UNCHANGED <<call_vars, engine_vars, simulation_vars>>
    /\ UNCHANGED <<session_perf, signals, volatility, trend, session,
                   score_result, trap_analysis, ai_prediction, signal>>

CrossoverLoop ==
    /\ pc = "ema_crossover"
    /\ df.i <= Len(call.series)
    /\ pc' = pc
    /\ df' = [ i |-> df.i + 1,
               rows |-> [ df.rows EXCEPT ![df.i].ema_crossover =
                                             ema_crossover_at(call.series, df.i) ] ]
    /\ UNCHANGED <<call_vars, engine_vars, simulation_vars>>
    /\ UNCHANGED <<session_perf, signals, volatility, trend, session,
                   score_result, trap_analysis, ai_prediction, signal>>

ReturnEmas ==
    /\ pc = "ema_crossover"
    /\ df.i > Len(call.series)
    /\ pc' = "macd"
    /\ UNCHANGED <<call_vars, engine_vars, simulation_vars>>
    /\ UNCHANGED <<session_perf, df, signals, volatility, trend, session,
                   score_result, trap_analysis, ai_prediction, signal>>

InitCross ==
    /\ pc = "ema_signal"
    /\ EngineUntrained
    /\ SimulationIdle
    /\ now = 14 * 60 /\ first_run = NoDict
    /\ \E series \in Series : call = [ series |-> series ]
    /\ session_perf = NoHistory
    /\ df = None
    /\ signals = None
    /\ volatility = None
    /\ trend = None
    /\ session = None
    /\ score_result = None
    /\ trap_analysis = None
    /\ ai_prediction = None
    /\ signal = None

NextCross ==
    \/ EmaSignalColumn
    \/ CrossoverLoop
    \/ ReturnEmas

SpecCross == InitCross /\ [][NextCross]_vars

(***************************************************************************)
(* The session lookups on their own, at every hour of the day: the one of  *)
(* the scorer and of the simulation engine (a walk over TRADING_SESSIONS   *)
(* in the order of the dictionary) and the one of the live data fetcher.   *)
(***************************************************************************)
SessionClock == { 60 * h + m : h \in 0..23, m \in {0, 15, 30, 45, 59} }

LookupSession ==
    /\ pc = "idle"
    /\ pc' = "session"
    /\ session' = [ scorer |-> _get_current_session(HourOf(now)),
                    recorder |-> first_session(TRADING_SESSIONS, HourOf(now)),
                    fetcher |-> _get_session(HourOf(now)),
                    score |-> _calculate_session_score(None, now, NoHistory) ]
    /\ UNCHANGED <<call_vars, engine_vars, simulation_vars>>
    /\ UNCHANGED <<session_perf, df, signals, volatility, trend,
                   score_result, trap_analysis, ai_prediction, signal>>

InitSession ==
    /\ NoPipeline
    /\ EngineUntrained
    /\ SimulationIdle
    /\ ClockAt(SessionClock)

SpecSession == InitSession /\ [][LookupSession]_vars

(***************************************************************************)
(* _determine_signal on its own: every combination of the arguments        *)
(***************************************************************************)
ScoreValues == {0, 549, 550, 699, 700, 799, 800, 1000}
ProbabilityValues == {200, 549, 550, 599, 600, 750, 800}
Recommendations == {"ENTER", "WAIT", "AVOID"}
BiasDirections == {"BULLISH", "BEARISH", "NEUTRAL"}

(* the sums analyze_setup can return *)
TrapRiskValues ==
    { overall_risk_of(p, l, v, d) : p \in BOOLEAN, l \in BOOLEAN, v \in BOOLEAN,
                                    d \in BOOLEAN }

InitDecision ==
    /\ pc = "decide"
    /\ EngineUntrained
    /\ SimulationIdle
    /\ ClockAt({14 * 60})
    /\ session_perf = NoHistory
    /\ df = None
    /\ \E direction \in BiasDirections :
         signals = [ overall_bias |-> [ direction |-> direction, confidence |-> 600 ] ]
    /\ volatility \in { Volatility(FALSE, 10000), Volatility(TRUE, 30000) }
    /\ trend = None
    /\ session = None
    /\ \E score \in ScoreValues : score_result = [ final_score |-> score ]
    /\ \E risk \in TrapRiskValues : trap_analysis = [ overall_risk_score |-> risk ]
    /\ \E rec \in Recommendations, prob \in ProbabilityValues :
         ai_prediction = [ recommendation |-> rec, probability |-> prob,
                           risk_level |-> "MEDIUM" ]
    /\ signal = None

SpecDecision == InitDecision /\ [][DetermineSignal]_vars

(***************************************************************************)
(* calculate_score on its own                                              *)
(***************************************************************************)
ScoreBars ==
    Bars({25000, 50000, 65000}, {-10000, 10000}, {0, 100000}, {0, 8000},
         {15000, 30000, 55000, 85000}, {500, 2000, 6000},
         {MarubozuUp, StandardDown, FlatDoji})

InitScore ==
    /\ pc = "score"
    /\ EngineUntrained
    /\ SimulationIdle
    /\ ClockAt(SampleTimes)
    /\ session_perf \in Histories
    /\ df = None
    /\ \E bar \in ScoreBars : signals = get_current_signals(calculate_all_indicators(bar))
    /\ volatility \in { NoVolatility, Volatility(FALSE, 10000), Volatility(TRUE, 30000) }
    /\ trend \in { NoTrend, Trend("UPTREND", TRUE), Trend("DOWNTREND", FALSE) }
    /\ session \in { None, "OVERLAP", "CLOSED" }
    /\ score_result = None
    /\ trap_analysis = None
    /\ ai_prediction = None
    /\ signal = None

SpecScore == InitScore /\ [][CalculateScore]_vars

(***************************************************************************)
(* analyze_setup on its own, with and without a historical frame           *)
(***************************************************************************)
TrapBars ==
    Bars({25000, 35000, 50000, 55000, 75000}, {-10000}, {-50000, 0, 100000},
         {-8000, 0, 3000},
         {-5000, 15000, 29996, 30000, 50000, 50004, 70000, 85000, 105000},
         {500, 2000, 4000, 6000},
         {MarubozuUp, StandardDown, FlatDoji})

InitTrap ==
    /\ pc = "traps"
    /\ EngineUntrained
    /\ SimulationIdle
    /\ ClockAt({14 * 60})
    /\ session_perf = NoHistory
    /\ \E mean \in {1500, 4000} : df \in { NoFrame, Frame(MaxCandles, None, mean) }
    /\ \E bar \in TrapBars : signals = get_current_signals(calculate_all_indicators(bar))
    /\ volatility = None
    /\ trend = None
    /\ session = None
    /\ score_result = None
    /\ trap_analysis = None
    /\ ai_prediction = None
    /\ signal = None

SpecTrap == InitTrap /\ [][AnalyzeSetup]_vars

(***************************************************************************)
(* predict_trade on its own, as simulation.analyze_setup and bot.analyze   *)
(* call it: any direction, signals with and without their fields           *)
(***************************************************************************)
PredictBars ==
    Bars({25000, 50000}, {-10000}, {-50000, 100000}, {-8000, 8000},
         {15000, 50000, 50004, 85000}, {2000, 6000}, {MarubozuUp, StandardDown})

PartialSignals ==
    { NoDict,
      [ overall_bias |-> [ total_signals |-> 0, bullish_signals |-> 0,
                           bearish_signals |-> 0 ] ],
      [ overall_bias |-> [ total_signals |-> 0 ],
        rsi |-> [ strength |-> 1000 ], ema |-> [ strength |-> 1000 ] ],
      [ overall_bias |-> [ bullish_signals |-> 4, direction |-> "BULLISH" ],
        rsi |-> [ strength |-> 1000 ], ema |-> [ strength |-> 750 ],
        bollinger |-> [ percent |-> 5000 ] ],
      [ overall_bias |-> [ bullish_signals |-> 3, bearish_signals |-> 1 ],
        bollinger |-> [ width |-> 200 ] ] }

Directions == {"CALL", "PUT", None}

PredictTradeFor ==
    /\ pc = "predict"
    /\ \E direction \in Directions, inference \in Inferences :
         /\ call' = [ direction |-> direction, inference |-> inference ]
         /\ ai_prediction' = predict_trade(signals, direction, is_trained, model, scaler,
                                           inference)
    /\ pc' = "decide"
    /\ UNCHANGED <<now, first_run, engine_vars, simulation_vars>>
    /\ UNCHANGED <<session_perf, df, signals, volatility, trend, session,
                   score_result, trap_analysis, signal>>

InitPredict ==
    /\ pc = "predict"
    /\ EngineUntrained \/ EngineLoaded \/ EngineHalfLoaded
    /\ SimulationIdle
    /\ ClockAt({14 * 60})
    /\ session_perf = NoHistory
    /\ df = None
    /\ \/ \E bar \in PredictBars :
            signals = get_current_signals(calculate_all_indicators(bar))
       \/ signals \in PartialSignals
    /\ volatility = None
    /\ trend = None
    /\ session = None
    /\ score_result = None
    /\ trap_analysis = None
    /\ ai_prediction = None
    /\ signal = None

SpecPredict == InitPredict /\ [][PredictTradeFor]_vars

(***************************************************************************)
(* Properties of _determine_signal, checked under SpecDecision             *)
(***************************************************************************)
decided == pc = "done" /\ signal.signal /= "NO_DATA"

Rule1Holds ==
    ai_prediction.recommendation = "AVOID" \/ trap_analysis.overall_risk_score >= 50

StrongConditions ==
    /\ score_result.final_score >= 700
    /\ ai_prediction.probability >= 600
    /\ trap_analysis.overall_risk_score < 25

MarginalConditions ==
    /\ score_result.final_score >= 550
    /\ ai_prediction.probability >= 550
    /\ trap_analysis.overall_risk_score < 40

Directional == signals.overall_bias.direction \in {"BULLISH", "BEARISH"}

ExpectedAction == IF signals.overall_bias.direction = "BULLISH" THEN "BUY" ELSE "SELL"
ExpectedDirection == IF signals.overall_bias.direction = "BULLISH" THEN "CALL" ELSE "PUT"

(* C1: whenever the recommendation is AVOID or the trap risk is at least   *)
(* 50, the decision is DO NOT TRADE with no direction, whatever the score, *)
(* the probability and the bias are.                                       *)
C1_DangerousIsNoTrade ==
    decided /\ Rule1Holds =>
        /\ signal.signal = "DO NOT TRADE"
        /\ signal.direction = None

(* a trap risk of exactly 50 alone, under the best score, probability and  *)
(* an ENTER recommendation, has stopped the trade                          *)
C1_Witness ==
    /\ decided
    /\ ai_prediction.recommendation = "ENTER"
    /\ trap_analysis.overall_risk_score = 50
    /\ score_result.final_score = 1000
    /\ ai_prediction.probability = 800
    /\ signals.overall_bias.direction = "BULLISH"
    /\ signal.signal = "DO NOT TRADE"

AccumulatedWarnings ==
    LET risk == trap_analysis.overall_risk_score
    IN  (IF risk >= 50 THEN << WarnHighTrap >>
         ELSE IF risk >= 25 THEN << WarnModerateTrap >> ELSE << >>)
        \o (IF volatility.is_high_volatility THEN << WarnHighVolatility >> ELSE << >>)

StrongRuleFires == StrongConditions /\ Directional
MarginalRuleFires == MarginalConditions /\ Directional

(* C4: when neither rule 1 nor the strong rule produces a result and       *)
(* score >= 55, probability >= 55 and trap risk < 40, a BULLISH bias gives *)
(* BUY/CALL and a BEARISH bias SELL/PUT, both with confidence LOW and with *)
(* the accumulated warnings followed by one marginal-setup warning; a      *)
(* NEUTRAL bias ends in WAIT.                                              *)
C4_MarginalRule ==
    decided /\ ~Rule1Holds /\ ~StrongRuleFires /\ MarginalConditions =>
        IF Directional
            THEN /\ signal.signal = ExpectedAction
                 /\ signal.direction = ExpectedDirection
                 /\ signal.confidence = "LOW"
                 /\ signal.warnings = AccumulatedWarnings \o << WarnMarginal >>
            ELSE signal.signal = "WAIT"

(* a top score and probability held back by a trap risk of 30 under high   *)
(* volatility has produced BUY at LOW with three warnings                  *)
C4_Witness ==
    /\ decided
    /\ ~Rule1Holds
    /\ score_result.final_score = 1000
    /\ ai_prediction.probability = 800
    /\ trap_analysis.overall_risk_score = 30
    /\ volatility.is_high_volatility
    /\ signals.overall_bias.direction = "BULLISH"
    /\ signal.signal = "BUY"
    /\ signal.confidence = "LOW"
    /\ signal.warnings = << WarnModerateTrap, WarnHighVolatility, WarnMarginal >>

(* the decision the four ordered rules prescribe, as a function of the     *)
(* inputs alone                                                            *)
RuleTableDecision ==
    IF Rule1Holds
        THEN [ action |-> "DO NOT TRADE", direction |-> None, confidence |-> "HIGH" ]
    ELSE IF StrongRuleFires
        THEN [ action |-> ExpectedAction, direction |-> ExpectedDirection,
               confidence |-> IF score_result.final_score >= 800 THEN "HIGH"
                              ELSE "MEDIUM" ]
    ELSE IF MarginalRuleFires
        THEN [ action |-> ExpectedAction, direction |-> ExpectedDirection,
               confidence |-> "LOW" ]
    ELSE [ action |-> "WAIT", direction |-> None, confidence |-> "MEDIUM" ]

ScenarioAIndicators ==
    /\ signals.rsi.value = 2500
    /\ signals.rsi.signal = "OVERSOLD"
    /\ signals.ema.signal = "BULLISH"
    /\ signals.macd.trend = "BULLISH"
    /\ signals.bollinger.percent = 5000
    /\ signals.candle.type = "BULLISH"
    /\ signals.overall_bias.direction = "BULLISH"

StrongBuy ==
    /\ signal.signal = "BUY"
    /\ signal.direction = "CALL"
    /\ signal.confidence = (IF signal.score >= 800 THEN "HIGH" ELSE "MEDIUM")

ScenarioABuyReached ==
    /\ decided
    /\ ScenarioAIndicators
    /\ trap_analysis.overall_risk_score = 0
    /\ signal.probability = 750
    /\ signal.score >= 700
    /\ StrongBuy

(***************************************************************************)
(* Properties of calculate_score, checked under SpecScore                  *)
(***************************************************************************)
scored == pc = "traps"

Grades == {"NO_TRADE", "RISKY", "ACCEPTABLE", "HIGH_QUALITY"}

(* C6: every final score in [0, 100] falls in exactly one of the four      *)
(* bands, so the returned grade is one of NO_TRADE, RISKY, ACCEPTABLE and  *)
(* HIGH_QUALITY and never Unknown.                                         *)
C6_GradeNeverUnknown ==
    scored =>
        /\ score_result.grade \in Grades
        /\ score_result.grade /= "Unknown"

(* the weighted combination as the spec gives it, in 1/1000 of a point:    *)
(* positive-weight contributions added, the psychology one subtracted      *)
Combination(b) ==
    25 * b.trend_alignment + 20 * b.momentum + 15 * b.volatility
    + 15 * b.candle_pattern + 10 * b.session_quality - 15 * b.psychology_risk

(* C7: each of the six raw factor scores lies in [0, 1] before weighting,  *)
(* and final_score is the combination clamped to [0, 100] (returned        *)
(* rounded to one decimal), so it lies in [0, 100].                        *)
C7_ScoreBounds ==
    scored =>
        /\ DOMAIN score_result.breakdown =
               {"trend_alignment", "momentum", "volatility", "candle_pattern",
                "session_quality", "psychology_risk"}
        /\ \A f \in DOMAIN score_result.breakdown :
               0 <= score_result.breakdown[f] /\ score_result.breakdown[f] <= 1000
        /\ score_result.final_score =
               Round(Max(0, Min(100000, Combination(score_result.breakdown))), 100)
        /\ 0 <= score_result.final_score /\ score_result.final_score <= 1000

(* a crossover in a strong, aligned trend has been scored: the trend       *)
(* factor's additions exceed 1.0 and the factor is 1.0                     *)
C7_Witness ==
    /\ scored
    /\ _calculate_trend_score_raw(signals, trend) > 1000
    /\ score_result.breakdown.trend_alignment = 1000
    /\ score_result.breakdown.psychology_risk > 0

(***************************************************************************)
(* Properties of analyze_setup, checked under SpecTrap                     *)
(***************************************************************************)
analyzed == pc = "predict"

RECURSIVE HasType(_, _)
HasType(checks, type) ==
    IF checks = << >> THEN FALSE
    ELSE Head(checks).type = type \/ HasType(Tail(checks), type)

Triggered(type) ==
    HasType(trap_analysis.traps_detected, type) \/ HasType(trap_analysis.risk_factors, type)

Contribution(type, points) == IF Triggered(type) THEN points ELSE 0

(* C8: overall_risk_score is the sum of the fixed contributions of exactly *)
(* the checks that triggered (30 perfect setup, 25 late entry, 25          *)
(* volatility spike, 15 divergence), and a check is reported exactly when  *)
(* it triggered; so one more triggered check, all else equal, strictly     *)
(* increases the score.                                                    *)
C8_RiskIsSumOfTriggered ==
    analyzed =>
        /\ trap_analysis.overall_risk_score =
               Contribution("PERFECT_SETUP_TRAP", 30) + Contribution("LATE_ENTRY_TRAP", 25)
               + Contribution("VOLATILITY_SPIKE", 25) + Contribution("INDICATOR_DIVERGENCE", 15)
        /\ Triggered("PERFECT_SETUP_TRAP") <=> _check_perfect_setup(signals).is_trap
        /\ Triggered("LATE_ENTRY_TRAP") <=> _check_late_entry(signals).is_trap
        /\ Triggered("VOLATILITY_SPIKE") <=> _check_volatility_spike(signals, df).is_trap
        /\ Triggered("INDICATOR_DIVERGENCE")
               <=> _check_indicator_divergence(signals).is_concern
        /\ \A p \in BOOLEAN, l \in BOOLEAN, v \in BOOLEAN, d \in BOOLEAN :
               /\ ~p => overall_risk_of(TRUE, l, v, d) > overall_risk_of(p, l, v, d)
               /\ ~l => overall_risk_of(p, TRUE, v, d) > overall_risk_of(p, l, v, d)
               /\ ~v => overall_risk_of(p, l, TRUE, d) > overall_risk_of(p, l, v, d)
               /\ ~d => overall_risk_of(p, l, v, TRUE) > overall_risk_of(p, l, v, d)

(* a late entry together with a divergence concern has been analysed: 40 *)
C8_Witness ==
    /\ analyzed
    /\ Triggered("LATE_ENTRY_TRAP")
    /\ Triggered("INDICATOR_DIVERGENCE")
    /\ ~Triggered("PERFECT_SETUP_TRAP")
    /\ ~Triggered("VOLATILITY_SPIKE")
    /\ trap_analysis.overall_risk_score = 40

(* C9: the assessment is HIGH_RISK_TRAP exactly when overall_risk_score    *)
(* is at least 50, MODERATE_RISK exactly when it is at least 25 and below  *)
(* 50, and LOW_RISK exactly when it is below 25.                           *)
C9_AssessmentBands ==
    analyzed =>
        LET risk == trap_analysis.overall_risk_score
        IN  /\ trap_analysis.assessment \in {"HIGH_RISK_TRAP", "MODERATE_RISK", "LOW_RISK"}
            /\ trap_analysis.assessment = "HIGH_RISK_TRAP" <=> risk >= 50
            /\ trap_analysis.assessment = "MODERATE_RISK" <=> 25 <= risk /\ risk < 50
            /\ trap_analysis.assessment = "LOW_RISK" <=> risk < 25

(* a late entry with a volatility spike, exactly 50, has been assessed as  *)
(* a high-risk trap                                                        *)
C9_Witness ==
    /\ analyzed
    /\ trap_analysis.overall_risk_score = 50
    /\ trap_analysis.assessment = "HIGH_RISK_TRAP"

(* C10: the late-entry check reports a trap exactly when the Bollinger     *)
(* percent is above 0.7 or below 0.3, and a reported late entry adds       *)
(* exactly 25 to overall_risk_score; a percent of 0.85 with otherwise      *)
(* neutral indicators gives a late-entry trap and a risk of 25.            *)
C10_LateEntryBand ==
    analyzed =>
        LET percent == signals.bollinger.percent
        IN  /\ Triggered("LATE_ENTRY_TRAP") <=> (percent > 7000 \/ percent < 3000)
            /\ Triggered("LATE_ENTRY_TRAP") =>
                   trap_analysis.overall_risk_score =
                       25 + Contribution("PERFECT_SETUP_TRAP", 30)
                          + Contribution("VOLATILITY_SPIKE", 25)
                          + Contribution("INDICATOR_DIVERGENCE", 15)
            /\ ( /\ percent = 8500
                 /\ signals.rsi.signal = "NEUTRAL"
                 /\ signals.ema.signal = "NEUTRAL"
                 /\ signals.macd.trend = "NEUTRAL"
                 /\ signals.candle.type = "NEUTRAL"
                 /\ ~Triggered("VOLATILITY_SPIKE") ) =>
                   /\ Triggered("LATE_ENTRY_TRAP")
                   /\ trap_analysis.overall_risk_score = 25

(***************************************************************************)
(* Properties of predict_trade, checked under SpecPredict                  *)
(***************************************************************************)
predicted == pc = "decide"

RuleBased == ai_prediction.model_version = "rule_based"

(* C11: for every signals input and every requested direction (CALL, PUT   *)
(* or none), also with total_signals = 0 and with missing fields, the      *)
(* probability the rule-based fallback returns lies in [20, 80].           *)
C11_RuleBasedProbabilityClamped ==
    predicted /\ RuleBased =>
        /\ 200 <= ai_prediction.probability
        /\ ai_prediction.probability <= 800

(* an empty signals dictionary has been predicted for a CALL: no bullish   *)
(* signal out of the default five, raised to the lower limit 20            *)
C11_Witness ==
    /\ predicted
    /\ RuleBased
    /\ signals = NoDict
    /\ call.direction = "CALL"
    /\ scaled_probability(signals, call.direction) < 20000
    /\ ai_prediction.probability = 200

(* the trained path is open: is_trained and a model object *)
TrainedPathOpen == is_trained /\ model.run /= None

Populated ==
    /\ ai_prediction.probability \in 0..1000
    /\ ai_prediction.confidence \in 0..1000
    /\ ai_prediction.recommendation \in {"ENTER", "WAIT", "AVOID"}
    /\ ai_prediction.risk_level \in {"LOW", "MEDIUM", "HIGH"}

(* C12: predict_trade returns the rule-based estimate, fully populated and *)
(* with model_version 'rule_based', whenever no trained model is loaded    *)
(* and whenever the trained-path inference raises; the trained path is     *)
(* taken only when is_trained is true and a model is present, and no       *)
(* exception reaches the caller.                                           *)
C12_FallbackToRuleBased ==
    predicted =>
        /\ ai_prediction.model_version \in {"rule_based", "trained_at"}
        /\ Populated
        /\ ~TrainedPathOpen => RuleBased
        /\ call.inference.outcome = "raise" => RuleBased
        /\ ~RuleBased => TrainedPathOpen /\ call.inference.outcome = "ok"

(* a loaded model whose inference raised has been answered by the          *)
(* rule-based estimate                                                     *)
C12_Witness ==
    /\ predicted
    /\ TrainedPathOpen
    /\ call.inference.outcome = "raise"
    /\ RuleBased
    /\ ai_prediction.confidence = 500

(* the probability the recommendation is taken from, in 1/1000 percent *)
DecidingProbability ==
    IF RuleBased
        THEN clamp_probability(scaled_probability(signals, call.direction))
        ELSE IF \/ call.direction = "CALL"
                   /\ Get(Get(signals, "overall_bias", NoDict), "direction", "NEUTRAL")
                          = "BEARISH"
                \/ call.direction = "PUT"
                   /\ Get(Get(signals, "overall_bias", NoDict), "direction", "NEUTRAL")
                          = "BULLISH"
            THEN (call.inference.model_output * 8) \div 10
            ELSE call.inference.model_output

ByThresholds ==
    IF DecidingProbability >= 70000 THEN "ENTER"
    ELSE IF DecidingProbability >= 55000 THEN "WAIT"
    ELSE "AVOID"

(* the snapshot has every field get_current_signals produces *)
FullSnapshot == DOMAIN signals = {"rsi", "ema", "macd", "bollinger", "candle", "overall_bias"}

(* the recommendation rule as the spec states it: AVOID when the trap      *)
(* checks of the snapshot add up to a HIGH risk (>= 50), otherwise ENTER   *)
(* from 0.70, WAIT from 0.55, AVOID below                                  *)
C13_RecommendationAsStated ==
    predicted /\ FullSnapshot =>
        ai_prediction.recommendation =
            (IF analyze_setup(signals, NoFrame, now).overall_risk_score >= 50
                 THEN "AVOID" ELSE ByThresholds)

(* the trap signs the engine itself looks at: an alignment of at least 0.9 *)
(* or a Bollinger percent above 0.7 or not above 0.3                       *)
EngineTrapSigns ==
    LET bias == Get(signals, "overall_bias", NoDict)
        aligned == Max(Get(bias, "bullish_signals", 0), Get(bias, "bearish_signals", 0))
        total == Get(bias, "total_signals", 5)
        percent == Get(Get(signals, "bollinger", NoDict), "percent", 5000)
    IN  \/ total > 0 /\ 10 * aligned >= 9 * total
        \/ percent > 7000
        \/ percent <= 3000

(* C13: on both paths the recommendation is AVOID when the engine's own    *)
(* trap detection fires (alignment ratio >= 0.9, or Bollinger percent      *)
(* above 0.7 or at most 0.3), whatever the trap risk score is; otherwise   *)
(* it is ENTER when probability >= 0.70, WAIT when 0.55 <= probability <   *)
(* 0.70 and AVOID when probability < 0.55.                                 *)
C13_Recommendation ==
    predicted =>
        ai_prediction.recommendation = (IF EngineTrapSigns THEN "AVOID" ELSE ByThresholds)

(* a late entry alone (trap risk 25) with a trained probability of 75 has  *)
(* been recommended as AVOID                                               *)
C13_Witness ==
    /\ predicted
    /\ FullSnapshot
    /\ ~RuleBased
    /\ analyze_setup(signals, NoFrame, now).overall_risk_score = 25
    /\ signals.bollinger.percent = 8500
    /\ DecidingProbability = 75000
    /\ ai_prediction.recommendation = "AVOID"

(***************************************************************************)
(* Properties of repeated runs, checked under SpecRepeat                   *)
(***************************************************************************)
second_run_done == pc = "done" /\ first_run /= NoDict

(* C14 as stated: for identical candle, session and trade-history input,   *)
(* two runs of the scoring and the decision produce identical output in    *)
(* every field, whatever the time of each run.                             *)
C14_IdenticalOutputAsStated ==
    second_run_done => RunOutputs = [ first_run EXCEPT !.at = now ]

(* the outputs without the fields that record when the run happened *)
Untimed(run) ==
    [ score_result |-> [ run.score_result EXCEPT !.timestamp = 0 ],
      trap_analysis |-> [ run.trap_analysis EXCEPT !.analysis_time = 0 ],
      ai_prediction |-> run.ai_prediction,
      signal |-> [ run.signal EXCEPT !.timestamp = 0 ] ]

(* the session that enters the score is the same in both runs: it was      *)
(* passed in, or both runs fall into the same session of the day           *)
SameSession ==
    \/ session /= None
    \/ _get_current_session(HourOf(first_run.at)) = _get_current_session(HourOf(now))

(* C14: for identical candle, session and trade-history input, two runs    *)
(* produce identical output in every field other than the timestamps       *)
(* (timestamp of the score, analysis_time of the trap assessment,          *)
(* timestamp of the signal), provided a session is passed to               *)
(* calculate_score or both runs happen in the same session of the day.     *)
C14_IdenticalOutput ==
    second_run_done /\ SameSession => Untimed(RunOutputs) = Untimed(first_run)

(* a second run eleven hours after the first, with the session passed in,  *)
(* has ended with the same untimed outputs and another timestamp           *)
C14_Witness ==
    /\ second_run_done
    /\ session = "LONDON"
    /\ now = first_run.at + 11 * 60
    /\ signal.timestamp /= first_run.signal.timestamp
    /\ Untimed(RunOutputs) = Untimed(first_run)

(***************************************************************************)
(* Properties of generate_signal, checked under Spec                       *)
(***************************************************************************)
returned == pc = "done"

Actions == {"BUY", "SELL", "WAIT", "DO NOT TRADE", "NO_DATA"}

biased == pc = "volatility"

FiveSignals == {"rsi_signal", "ema_signal", "macd_trend", "bb_signal", "candle_type"}

BullishCount ==
    Cardinality({ k \in FiveSignals :
                    df.latest[k] \in {"BULLISH", "OVERSOLD", "BULLISH_CROSS"} })

BearishCount ==
    Cardinality({ k \in FiveSignals :
                    df.latest[k] \in {"BEARISH", "OVERBOUGHT", "BEARISH_CROSS"} })

(* C16: over the five signals the bias is BULLISH iff the bullish-like     *)
(* count exceeds the bearish-like count, BEARISH iff it is smaller and     *)
(* NEUTRAL on a tie; the confidence is the majority count over 5 when not  *)
(* tied and 0.5 on a tie; bullish + bearish <= total = 5.                  *)
C16_OverallBias ==
    biased =>
        LET bias == signals.overall_bias
        IN  /\ bias.bullish_signals = BullishCount
            /\ bias.bearish_signals = BearishCount
            /\ bias.direction = "BULLISH" <=> BullishCount > BearishCount
            /\ bias.direction = "BEARISH" <=> BullishCount < BearishCount
            /\ bias.direction = "NEUTRAL" <=> BullishCount = BearishCount
            /\ bias.confidence = (IF BullishCount = BearishCount THEN 500
                                  ELSE 200 * Max(BullishCount, BearishCount))
            /\ bias.total_signals = 5
            /\ bias.bullish_signals + bias.bearish_signals <= bias.total_signals

(* two bullish-like against two bearish-like signals: NEUTRAL at 0.5 *)
C16_Witness ==
    /\ biased
    /\ BullishCount = 2 /\ BearishCount = 2
    /\ df.latest.rsi_signal = "OVERSOLD"
    /\ signals.overall_bias.direction = "NEUTRAL"
    /\ signals.overall_bias.confidence = 500

(***************************************************************************)
(* Properties of train_model, checked under SpecTrain                      *)
(***************************************************************************)
quiescent == \A t \in Trainers : trainer[t].pc \in {"idle", "done"}

succeeded(t) == trainer[t].pc = "done" /\ trainer[t].result.success

failed(t) == trainer[t].pc = "done" /\ ~trainer[t].result.success

(* C17: concurrent train_model requests are serialized: whatever the       *)
(* interleaving of two training runs, once they have returned the model    *)
(* file and the scaler file come from the same run, and the model and the  *)
(* scaler in memory come from the same run.                                *)
C17_TrainingSerialized ==
    quiescent /\ (\E t \in Trainers : succeeded(t)) =>
        /\ model_file.model.run = scaler_file
        /\ model_file.model.fitted
        /\ model.run = scaler
        /\ model.fitted

EngineState == <<is_trained, model, scaler, model_metrics, model_file, scaler_file>>

InitialEngineStates ==
    { <<FALSE, NoModel, "unfitted", None, NoModelFile, None>>,
      <<TRUE, SavedModel, "saved", "saved",
        [ model |-> SavedModel, metrics |-> "saved" ], "saved">> }

(* C18: with fewer than min_training_samples usable samples train_model    *)
(* returns {success: false, message, current_samples} and leaves model,    *)
(* scaler, is_trained, model_metrics and the files as they were, both for  *)
(* too few trades and for too few trades with a snapshot and an outcome.   *)
C18_StructuredFailure ==
    /\ \A t \in Trainers :
         failed(t) => DOMAIN trainer[t].result = {"success", "message", "current_samples"}
    /\ (\A t \in Trainers : trainer[t].pc = "idle" \/ failed(t)) =>
           EngineState \in InitialEngineStates

(***************************************************************************)
(* Properties of the pause rules, checked under SpecLosses and SpecDaily   *)
(***************************************************************************)
LossReasons == { LossReason(n) : n \in 1..3 }

LossPaused == is_paused /\ pause_reason \in LossReasons

LossCount == Cardinality({ i \in DOMAIN trades : trades[i].outcome = "LOSS" })

ThreeMostRecentLost ==
    /\ Len(trades) >= 3
    /\ \A i \in (Len(trades) - 2)..Len(trades) : trades[i].outcome = "LOSS"

(* C19: after any sequence of execute_trade and close_trade calls the      *)
(* consecutive-loss pause is entered when and only when the three most     *)
(* recent trades have all closed as LOSS, and a history with fewer than    *)
(* three losing trades never has it.                                       *)
C19_PauseAfterThreeLosses ==
    [][ /\ (~LossPaused /\ LossPaused') => ThreeMostRecentLost'
        /\ (~ThreeMostRecentLost /\ ThreeMostRecentLost') => LossPaused'
        /\ LossPaused' => LossCount' >= 3 ]_vars

TradesOn(day) ==
    Cardinality({ i \in DOMAIN trades : DateOf(trades[i].entry_time) = day })

(* C20: with every execute_trade made without force, no calendar day has   *)
(* more than max_daily_trades = 10 trades entered on it, and an attempt on *)
(* a day that already has 10 returns TRADING_BLOCKED and inserts nothing.  *)
C20_DailyLimit ==
    [][ /\ \A day \in 0..LastDay : TradesOn(day)' <= 10
        /\ (TradesOn(DateOf(now)) >= 10 /\ BotExecute) =>
               /\ trades' = trades
               /\ last_result'.error = "TRADING_BLOCKED" ]_vars

(* the eleventh attempt of the day has been refused with ten trades in the *)
(* table, the last of them still open                                      *)
C20_Witness ==
    /\ TradesOn(DateOf(now)) = 10
    /\ Len(trades) = 10
    /\ ~trades[10].closed
    /\ last_result.op = "execute_trade"
    /\ last_result.error = "TRADING_BLOCKED"

(***************************************************************************)
(* Properties of the bot's modes, checked under SpecMode                   *)
(***************************************************************************)
(* C21: in manual_assist mode every bot.execute call returns success =     *)
(* false with error AUTO_TRADE_DISABLED and leaves the trade table, the    *)
(* balance and the pause state unchanged, and no trade is added for as     *)
(* long as the mode stays manual_assist.                                   *)
C21_NoExecutionInManualAssist ==
    [][ /\ (mode = "manual_assist" /\ ExecuteInMode) =>
               /\ last_result'.success = FALSE
               /\ last_result'.error = "AUTO_TRADE_DISABLED"
               /\ UNCHANGED <<trades, balance, is_paused, pause_reason>>
        /\ (mode = "manual_assist" /\ mode' = "manual_assist") =>
               Len(trades') = Len(trades) ]_vars

(* an execute was refused in manual_assist mode with an open trade in the  *)
(* table and trading not paused                                            *)
C21_Witness ==
    /\ mode = "manual_assist"
    /\ last_result.op = "execute"
    /\ last_result.error = "AUTO_TRADE_DISABLED"
    /\ Len(trades) = 1 /\ ~trades[1].closed
    /\ ~is_paused

(***************************************************************************)
(* Properties of the EMA crossover column, checked under SpecCross         *)
(***************************************************************************)
emas_done == pc = "macd"

(* fast - slow at row k is below, at or above zero; false on a NaN row *)
DiffNegative(k) == call.series[k].defined /\ call.series[k].ema_fast < call.series[k].ema_slow
DiffZero(k) == call.series[k].defined /\ call.series[k].ema_fast = call.series[k].ema_slow
DiffPositive(k) == call.series[k].defined /\ call.series[k].ema_fast > call.series[k].ema_slow

ExpectedCross(k) ==
    IF k = 1 THEN "NONE"
    ELSE IF (DiffNegative(k - 1) \/ DiffZero(k - 1)) /\ DiffPositive(k) THEN "BULLISH_CROSS"
    ELSE IF (DiffPositive(k - 1) \/ DiffZero(k - 1)) /\ DiffNegative(k) THEN "BEARISH_CROSS"
    ELSE "NONE"

(* C22: over a scanned series the first bar is NONE, a later bar is        *)
(* BULLISH_CROSS iff fast - slow was <= 0 on the bar before and is > 0 on  *)
(* it, BEARISH_CROSS iff it was >= 0 and is < 0, NONE otherwise; two       *)
(* consecutive bars never carry the same cross, and a cross agrees with    *)
(* the ema_signal of its bar.                                              *)
C22_EmaCrossover ==
    emas_done =>
        \A k \in DOMAIN df.rows :
            /\ df.rows[k].ema_crossover = ExpectedCross(k)
            /\ (k > 1 /\ df.rows[k].ema_crossover /= "NONE") =>
                   df.rows[k].ema_crossover /= df.rows[k - 1].ema_crossover
            /\ df.rows[k].ema_crossover = "BULLISH_CROSS" => df.rows[k].ema_signal = "BULLISH"
            /\ df.rows[k].ema_crossover = "BEARISH_CROSS" => df.rows[k].ema_signal = "BEARISH"

(* a series that touches zero, crosses up and crosses straight back down *)
C22_Witness ==
    /\ emas_done
    /\ Len(df.rows) = 3
    /\ DiffZero(1)
    /\ df.rows[2].ema_crossover = "BULLISH_CROSS"
    /\ df.rows[3].ema_crossover = "BEARISH_CROSS"

(***************************************************************************)
(* Properties of the session lookups, checked under SpecSession            *)
(***************************************************************************)
(* C23: every hour h with 13 <= h < 16 is classified as OVERLAP by the     *)
(* lookups used for scoring and for trade recording, where the session     *)
(* score is then 1.0, and at every hour of the day those lookups agree     *)
(* with LiveDataFetcher._get_session.                                      *)
C23_OverlapSession ==
    pc = "session" =>
        /\ (13 <= HourOf(now) /\ HourOf(now) < 16) =>
               /\ session.scorer = "OVERLAP"
               /\ session.recorder = "OVERLAP"
               /\ session.score = 1000
        /\ session.scorer = session.fetcher
        /\ session.recorder = session.fetcher

(***************************************************************************)
(* Properties of the balance, checked under SpecLosses                     *)
(***************************************************************************)
RECURSIVE SumPnl(_)
SumPnl(trs) ==
    IF trs = << >> THEN 0
    ELSE (IF Head(trs).closed THEN Head(trs).pnl ELSE 0) + SumPnl(Tail(trs))

ClosedCount == Cardinality({ i \in DOMAIN trades : trades[i].closed })

(* the balance is the initial balance plus the recorded PnL of the closed  *)
(* trades, up to the half cent by which each recorded PnL was rounded      *)
BalanceIsSumOfPnl ==
    2 * Abs(balance - initial_balance - SumPnl(trades)) <= 100 * ClosedCount

(* C24: after any sequence of execute_trade and close_trade calls the      *)
(* balance is the initial balance plus the PnL of the closed trades, each  *)
(* counted once, also when two balance updates carry the same timestamp;   *)
(* closing a closed trade returns TRADE_ALREADY_CLOSED, closing an unknown *)
(* id returns TRADE_NOT_FOUND, and neither changes trades or balance.      *)
C24_BalanceIsSumOfPnl ==
    [][ /\ BalanceIsSumOfPnl'
        /\ \A trade_id \in CloseIds, move \in ExitMoves :
               (close_trade(trade_id, move) /\ trade_id \notin DOMAIN trades) =>
                   /\ last_result'.error = "TRADE_NOT_FOUND"
                   /\ UNCHANGED <<trades, balance>>
        /\ \A trade_id \in CloseIds \cap DOMAIN trades, move \in ExitMoves :
               (close_trade(trade_id, move) /\ trades[trade_id].closed) =>
                   /\ last_result'.error = "TRADE_ALREADY_CLOSED"
                   /\ UNCHANGED <<trades, balance>> ]_vars

(***************************************************************************)
(* Properties of resume_trading, checked under SpecResume                  *)
(***************************************************************************)
(* neither the daily trade limit nor the drawdown limit is reached *)
LimitsNotReached ==
    /\ TradesOn(DateOf(now)) < max_daily_trades
    /\ (initial_balance - balance) * 100 < max_drawdown_percent * initial_balance

(* C25: after resume_trading returns, is_paused is false and pause_reason  *)
(* is empty, and the next execute_trade without force is accepted when the *)
(* daily trade limit and the drawdown limit are not reached and at least   *)
(* 50 candles exist.                                                       *)
C25_PauseCanBeLifted ==
    [][ /\ ResumeTrading => (~is_paused' /\ pause_reason' = "")
        /\ \A direction \in TradeDirections :
               ( /\ last_result.op = "resume_trading"
                 /\ LimitsNotReached
                 /\ ExecuteTrade(direction, TRUE, FALSE) ) =>
                   /\ last_result'.success
                   /\ Len(trades') = Len(trades) + 1 ]_vars

(***************************************************************************)
(* Properties of generate_signal as a whole, checked under Spec            *)
(***************************************************************************)
entered == decided /\ signal.signal \in {"BUY", "SELL"}

C27_DirectionFollowsBias ==
    decided =>
        /\ signal.signal = "BUY" <=> signal.direction = "CALL"
        /\ signal.signal = "SELL" <=> signal.direction = "PUT"
        /\ signal.signal = "BUY" => signals.overall_bias.direction = "BULLISH"
        /\ signal.signal = "SELL" => signals.overall_bias.direction = "BEARISH"
        /\ signal.signal \in {"WAIT", "DO NOT TRADE"} => signal.direction = None
        /\ signal.signal \in {"BUY", "SELL", "WAIT", "DO NOT TRADE"}
        /\ signals.overall_bias.direction = "NEUTRAL" =>
               signal.signal \in {"WAIT", "DO NOT TRADE"}

(* the best score and probability with no trap risk and a NEUTRAL bias     *)
(* ended in WAIT without a direction                                       *)
C27_Witness ==
    /\ decided
    /\ signals.overall_bias.direction = "NEUTRAL"
    /\ score_result.final_score = 1000
    /\ ai_prediction.probability = 800
    /\ ai_prediction.recommendation = "ENTER"
    /\ trap_analysis.overall_risk_score = 0
    /\ signal.signal = "WAIT"
    /\ signal.direction = None

(***************************************************************************)
(* Perfect setup against divergence, checked under SpecTrap                *)
(***************************************************************************)
RiskScores == {0, 15, 25, 30, 40, 50, 55, 65, 80}

(* C28: for a snapshot of get_current_signals the perfect-setup check and  *)
(* the divergence check never trigger together (the first needs all five   *)
(* bias signals on one side, the second at least two of rsi, macd, ema and *)
(* candle on each side), so overall_risk_score is at most 80 and always    *)
(* one of 0, 15, 25, 30, 40, 50, 55, 65, 80.                               *)
C28_PerfectExcludesDivergence ==
    analyzed =>
        /\ ~(Triggered("PERFECT_SETUP_TRAP") /\ Triggered("INDICATOR_DIVERGENCE"))
        /\ Triggered("PERFECT_SETUP_TRAP") =>
               Max(signals.overall_bias.bullish_signals,
                   signals.overall_bias.bearish_signals) = 5
        /\ trap_analysis.overall_risk_score <= 80
        /\ trap_analysis.overall_risk_score \in RiskScores

(* all five signals on one side with a late entry and a volatility spike:  *)
(* the three traps are reported without a divergence and the risk is 80    *)
C28_Witness ==
    /\ analyzed
    /\ Triggered("PERFECT_SETUP_TRAP")
    /\ Triggered("LATE_ENTRY_TRAP")
    /\ Triggered("VOLATILITY_SPIKE")
    /\ ~Triggered("INDICATOR_DIVERGENCE")
    /\ trap_analysis.overall_risk_score = 80

(***************************************************************************)
(* The trap assessment behind the score and the one behind the decision,   *)
(* checked under Spec                                                      *)
(***************************************************************************)
(* C29: within one generate_signal call the trap assessment that gives the *)
(* psychology_risk factor of the score is the one handed to the decision   *)
(* policy: for the same snapshot and candle history the same checks, the   *)
(* volatility-spike check in particular, are triggered in both; so the     *)
(* factor is the penalty of the assessment the decision was taken on.      *)
C29_SameTrapAssessment ==
    decided =>
        /\ score_result.breakdown.psychology_risk = penalty_for(trap_analysis)
        /\ Triggered("VOLATILITY_SPIKE")
               <=> _check_volatility_spike(signals, NoFrame).is_trap

====
